---- MODULE Spec2Model ----
(***************************************************************************)
(* MyVision guide generator: prompt construction and the batch / streaming *)
(* guide client (guide_generator.py), filename generation, the Markdown    *)
(* and styled-document writers (file_manager.py), the configuration and    *)
(* its accessibility validation (config.py) and the commands (cli.py).     *)
(*                                                                         *)
(* Text is a sequence of tokens.  A token is one character ("a", " ",      *)
(* "\n") or one fixed fragment of a string literal of the source (a whole  *)
(* template line such as "## Prerequisites"); concatenating the tokens of  *)
(* a sequence gives the Python string.                                     *)
(***************************************************************************)
EXTENDS Integers, Sequences, FiniteSets, TLC

VARIABLES
    mode,                 \* which entry point runs: "batch", "stream", "adapter"
    pc,                   \* position of the call
    topic,                \* argument topic
    thinking,             \* config.stream_thinking_process
    level,                \* config.thinking_detail_level
    prompt,               \* local prompt
    requests,             \* calls made on client.messages.create, in order
    remoteError,          \* text of the exception the remote side raised, if any
    received,             \* events taken from response_stream so far
    delivered,            \* fragments yielded to the consumer so far
    accumulated_content,  \* local of stream_topic_guide
    full_content,         \* local of generate_topic_guide_with_streaming
    result,               \* <<>> or <<the returned dict>>
    raised,               \* <<>> or <<the message of the raised Exception>>
    loop,                 \* what the event-loop thread (the caller's main task) does
    progressed,           \* the main task took a step while the request was in flight
    fpc,                  \* position of the file-manager scenario
    title,                \* argument of _clean_filename
    cleaned,              \* _clean_filename(title)
    recleaned,            \* _clean_filename(_clean_filename(title))
    metadata,             \* argument of save_markdown_guide
    content,              \* argument of save_markdown_guide
    fileText,             \* <<>> or <<text of the written file>>
    config,               \* the process-wide Config object (config.py)
    logoFile,             \* what the file system holds at config.logo_path
    now,                  \* the local clock, in ticks
    issued,               \* filenames returned by generate_filename, in order
    filename,             \* <<>> or the filename the current save works on
    disk,                 \* the files under Learning_Guides
    cmd,                  \* the CLI command that runs
    cpc,                  \* position of the CLI command
    format_type,          \* argument format_type
    console,              \* messages printed to the user, in order
    escaped,              \* <<>> or <<the exception that left the command uncaught>>
    validation,           \* <<>> or <<result of validate_accessibility_settings>>
    doc                   \* <<>> or the in-memory Document being built

genVars == <<mode, pc, topic, thinking, level, prompt, requests, remoteError,
             received, delivered, accumulated_content, full_content, result, raised,
             loop, progressed>>
fileVars == <<fpc, title, cleaned, recleaned, metadata, content, fileText>>
extVars == <<config, logoFile, now, issued, filename, disk, cmd, cpc,
             format_type, console, escaped, validation, doc>>
vars == <<mode, pc, topic, thinking, level, prompt, requests, remoteError,
          received, delivered, accumulated_content, full_content, result, raised,
          loop, progressed,
          fpc, title, cleaned, recleaned, metadata, content, fileText,
          config, logoFile, now, issued, filename, disk, cmd, cpc,
          format_type, console, escaped, validation, doc>>

----------------------------------------------------------------------------
(* Bounds *)

MaxTopicLen == 2
MaxEvents == 3
MaxHead == 1
MaxEdge == 2
MaxMeta == 2
MaxValueLen == 2
MaxContentLen == 2

----------------------------------------------------------------------------
(* Text helpers *)

NL == "\n"
IND == "        "
IND16 == "                "

RECURSIVE Flatten(_)
Flatten(ss) == IF ss = <<>> THEN <<>> ELSE Head(ss) \o Flatten(Tail(ss))

SeqsUpTo(S, n) == UNION {[1..k -> S] : k \in 0..n}

Line(s) == <<IND, s, NL>>
BlankLine == <<IND, NL>>
Line16(s) == <<IND16, s, NL>>
BlankLine16 == <<IND16, NL>>

(* str.lower / str.upper on one token.  The cased characters of the model   *)
(* are the ASCII letters; every other token is uncased.                     *)
LowerLetters ==
    << "a", "b", "c", "d", "e", "f", "g", "h", "i", "j", "k", "l",
       "m", "n", "o", "p", "q", "r", "s", "t", "u", "v", "w", "x",
       "y", "z" >>

UpperLetters ==
    << "A", "B", "C", "D", "E", "F", "G", "H", "I", "J", "K", "L",
       "M", "N", "O", "P", "Q", "R", "S", "T", "U", "V", "W", "X",
       "Y", "Z" >>

LowerSet == {LowerLetters[i] : i \in 1..Len(LowerLetters)}
UpperSet == {UpperLetters[i] : i \in 1..Len(UpperLetters)}

LowerOf == [c \in UpperSet |-> LowerLetters[CHOOSE i \in 1..Len(UpperLetters) : UpperLetters[i] = c]]
UpperOf == [c \in LowerSet |-> UpperLetters[CHOOSE i \in 1..Len(LowerLetters) : LowerLetters[i] = c]]

LowerTok(c) == IF c \in UpperSet THEN LowerOf[c] ELSE c

UpperTok(c) == IF c \in LowerSet THEN UpperOf[c] ELSE c

(* DOUBLE-STRUCK CAPITAL C, one of the letters for which str.isupper() is   *)
(* true and that have no lowercase form: str.lower() and str.upper() leave  *)
(* it as it is, and \w matches it                                           *)
DoubleStruckC == "(U+2102)"

IsLetter(c) == c \in LowerSet \/ c \in UpperSet \/ c = DoubleStruckC

(* A fragment token a caller may type inside a topic: it is its own title    *)
(* case form, starts with an uncased character and ends with a letter.       *)
PhraseTokens == {"## Prerequisites"}

Lower(s) == [i \in 1..Len(s) |-> LowerTok(s[i])]

(* str.title(): a cased character is upper-cased when the previous character *)
(* is uncased (or there is none) and lower-cased otherwise.                  *)
Title(s) ==
    [i \in 1..Len(s) |->
        IF s[i] \in PhraseTokens THEN s[i]
        ELSE IF i > 1 /\ (IsLetter(s[i-1]) \/ s[i-1] \in PhraseTokens)
             THEN LowerTok(s[i])
             ELSE UpperTok(s[i])]

----------------------------------------------------------------------------
(* Configuration (config.py).  line_spacing is kept in hundredths: 115 is    *)
(* the float 1.15.  logo_path is <<>> when the attribute is unset.           *)

LogoPath == "assets/myvision_Logo.png"

DefaultConfig ==
    [ streaming_enabled          |-> TRUE,
      streaming_fallback_enabled |-> TRUE,
      streaming_error_retry      |-> TRUE,
      body_font_size             |-> 18,
      heading1_font_size         |-> 24,
      heading2_font_size         |-> 22,
      heading3_font_size         |-> 20,
      accessible_font            |-> "Arial",
      line_spacing               |-> 115,
      high_contrast_mode         |-> FALSE,
      logo_path                  |-> <<LogoPath>> ]

ConfigIdle == config = DefaultConfig

ExtIdle ==
    /\ logoFile = "missing" /\ now = 0 /\ issued = <<>> /\ filename = <<>>
    /\ disk = {} /\ cmd = "none" /\ cpc = "idle" /\ format_type = "markdown"
    /\ console = <<>> /\ escaped = <<>> /\ validation = <<>> /\ doc = <<>>

----------------------------------------------------------------------------
(* Prompt builder *)

TitleSuffix == " - Learning Guide"
RequestLead == "Create a comprehensive learning guide for: "

Headers ==
    << "## Learning Objectives", "## Prerequisites", "## Step-by-Step Instructions",
       "## Practice Activities", "## Troubleshooting", "## Next Steps" >>

TemplateBody ==
    Flatten(<<
        BlankLine,
        Line("## Learning Objectives"),
        Line("What the learner will accomplish by completing this guide"),
        BlankLine,
        Line("## Prerequisites"),
        Line("What they should know or have set up before starting"),
        BlankLine,
        Line("## Step-by-Step Instructions"),
        Line("Detailed, numbered steps with clear explanations"),
        Line("Include specific gesture commands, keyboard shortcuts, or menu paths"),
        BlankLine,
        Line("## Practice Activities"),
        Line("Hands-on exercises to reinforce the learning"),
        BlankLine,
        Line("## Troubleshooting"),
        Line("Common issues and how to resolve them"),
        BlankLine,
        Line("## Next Steps"),
        Line("What to learn next to build on this foundation"),
        BlankLine,
        Line("Guidelines:"),
        Line("- Use encouraging, supportive language throughout"),
        Line("- Explain WHY steps are important, not just HOW"),
        Line("- Include specific examples and scenarios"),
        Line("- Consider the emotional journey of learning new technology"),
        Line("- Use active voice and clear instructions"),
        <<IND>> >>)

MutBatchBasePrompt(t) ==
    <<NL, IND, RequestLead>> \o t \o <<NL>>
      \o BlankLine
      \o Line("Structure your guide with these sections:")
      \o BlankLine
      \o <<IND, "# ">> \o t \o <<TitleSuffix, NL>>
      \o TemplateBody

(* guide_generator.py 190-222: the f-string of generate_topic_guide *)
BatchBasePrompt(t) ==
    <<NL, IND, RequestLead>> \o t \o <<NL>>
      \o BlankLine
      \o Line("Structure your guide with these sections:")
      \o BlankLine
      \o <<IND, "# ">> \o Title(t) \o <<TitleSuffix, NL>>
      \o TemplateBody

(* guide_generator.py 555-587: the f-string of stream_topic_guide *)
StreamBasePrompt(t) ==
    <<NL, IND, RequestLead>> \o t \o <<NL>>
      \o BlankLine
      \o Line("Structure your guide with these sections:")
      \o BlankLine
      \o <<IND, "# ">> \o Title(t) \o <<TitleSuffix, NL>>
      \o TemplateBody

DetailedBlock ==
    Flatten(<<
        <<NL>>, BlankLine16,
        Line16("IMPORTANT: Show your complete thought process as you work."),
        BlankLine16,
        Line16("Think out loud about:"),
        Line16("- How you analyze this topic and its complexity"),
        Line16("- What you know about the target audience"),
        Line16("- Your pedagogical decisions and why you make them"),
        Line16("- How you structure content for maximum learning"),
        Line16("- What examples and activities would be most effective"),
        BlankLine16,
        Line16("Format your thinking clearly, then create the guide."),
        <<IND16>> >>)

ExpertBlock ==
    Flatten(<<
        <<NL>>, BlankLine16,
        Line16("IMPORTANT: Demonstrate expert-level educational reasoning."),
        BlankLine16,
        Line16("Show your complete analysis including:"),
        Line16("- Topic complexity assessment and prerequisite mapping"),
        Line16("- Learner persona analysis and accessibility considerations  "),
        Line16("- Cognitive load management and chunking strategies"),
        Line16("- Multi-modal learning approach selection"),
        Line16("- Common failure points and mitigation strategies"),
        Line16("- Assessment and practice activity design rationale"),
        BlankLine16,
        Line16("Provide deep insight into your educational decision-making process."),
        <<IND16>> >>)

BasicBlock ==
    Flatten(<<
        <<NL>>, BlankLine16,
        Line16("IMPORTANT: Think out loud as you create this guide."),
        BlankLine16,
        Line16("Show me your reasoning about:"),
        Line16("- What makes this topic challenging for learners"),
        Line16("- How you'll structure the content"),
        Line16("- Why you choose specific examples"),
        BlankLine16,
        Line16("Then create the guide based on your analysis."),
        <<IND16>> >>)

MutThinkingInstruction(lv) ==
    IF lv = "detailed" THEN DetailedBlock
    ELSE IF lv = "basic" THEN BasicBlock
    ELSE ExpertBlock

(* guide_generator.py 239-279 / 604-644: the if / elif / else on the level *)
ThinkingInstruction(lv) ==
    IF lv = "detailed" THEN DetailedBlock
    ELSE IF lv = "expert" THEN ExpertBlock
    ELSE BasicBlock

(* guide_generator.py 190-281 *)
BatchPrompt(t, th, lv) ==
    IF th THEN BatchBasePrompt(t) \o ThinkingInstruction(lv) ELSE BatchBasePrompt(t)

(* guide_generator.py 555-646 *)
StreamPrompt(t, th, lv) ==
    IF th THEN StreamBasePrompt(t) \o ThinkingInstruction(lv) ELSE StreamBasePrompt(t)

----------------------------------------------------------------------------
(* Guide client: shared pieces *)

NoContentMessage == "No content received from streaming API"
BatchErrorPrefix == "Failed to generate guide: "
StreamErrorPrefix == "Failed to stream guide generation: "

(* what client.messages.create or the event iterator may raise (str(e)) *)
RemoteErrors == {"401 invalid x-api-key", "Connection error."}

(* datetime.now().isoformat() *)
IsoStamps == {"2024-06-08T14:30:22.000001", "2024-06-08T14:30:23.000002"}

StrVal(t) == [kind |-> "str", text |-> t, flag |-> FALSE]
NoneVal == [kind |-> "none", text |-> <<>>, flag |-> FALSE]
BoolVal(b) == [kind |-> "bool", text |-> <<>>, flag |-> b]
Entry(k, v) == [key |-> k, value |-> v]

(* config.py 128-130 and guide_generator.py 107-126: the request fields *)
Request(p, streamFlag) ==
    [model |-> "claude-sonnet-4-20250514", max_tokens |-> 3000, temperature |-> "0.2",
     system |-> "system_prompt", content |-> p, stream |-> streamFlag]

(* guide_generator.py 316-328 *)
BatchRequest(p) == Request(p, FALSE)

(* guide_generator.py 677-685 *)
StreamRequest(p) == Request(p, TRUE)

IsWhitespace(c) == c \in {" ", NL}

MutStripIsEmpty(s) == s = <<>>

(* str.strip() leaves nothing: every character is whitespace *)
StripIsEmpty(s) == \A i \in 1..Len(s) : IsWhitespace(s[i])

(* Batch responses: response.content is a list of blocks; a block may be a *)
(* text block or a block without a text attribute.                         *)
ChunkTexts == {<<>>, <<" ">>, <<"a">>, <<"b">>}
TextBlock(t) == [hasText |-> TRUE, text |-> t]
OtherBlock == [hasText |-> FALSE, text |-> <<>>]
Responses == {<<>>} \cup {<<b>> : b \in {TextBlock(t) : t \in ChunkTexts} \cup {OtherBlock}}

(* Stream events, as the duck-typed checks of lines 696-697 see them *)
TextDelta(t) == [hasType |-> TRUE, type |-> "content_block_delta",
                 hasDelta |-> TRUE, hasText |-> TRUE, text |-> t]
JsonDelta == [hasType |-> TRUE, type |-> "content_block_delta",
              hasDelta |-> TRUE, hasText |-> FALSE, text |-> <<>>]
MessageStop == [hasType |-> TRUE, type |-> "message_stop",
                hasDelta |-> FALSE, hasText |-> FALSE, text |-> <<>>]
Untyped == [hasType |-> FALSE, type |-> "", hasDelta |-> FALSE, hasText |-> FALSE,
            text |-> <<>>]
Events == {TextDelta(t) : t \in ChunkTexts} \cup {JsonDelta, MessageStop, Untyped}

(* guide_generator.py 696-697 *)
IsTextChunk(ev) ==
    /\ ev.hasType /\ ev.type = "content_block_delta"
    /\ ev.hasDelta /\ ev.hasText

(* guide_generator.py 401-407 and 443-447 *)
BatchResult(t, text, ts) ==
    [content |-> text,
     title |-> Title(t) \o <<TitleSuffix>>,
     metadata |-> << Entry("type", StrVal(<<"Learning Guide">>)),
                     Entry("title", StrVal(Title(t) \o <<TitleSuffix>>)),
                     Entry("topic", StrVal(t)),
                     Entry("generated", StrVal(<<ts>>)),
                     Entry("client_name", NoneVal) >>]

(* guide_generator.py 760-770 *)
StreamingResult(t, text, ts) ==
    [content |-> text,
     title |-> Title(t) \o <<TitleSuffix>>,
     metadata |-> << Entry("generated", StrVal(<<ts>>)),
                     Entry("topic", StrVal(t)),
                     Entry("type", StrVal(<<"learning_guide">>)),
                     Entry("client_name", NoneVal),
                     Entry("streaming_enabled", BoolVal(TRUE)) >>]

MutBatchFailure(e) == [res |-> <<BatchResult(<<>>, <<>>, "")>>, exc |-> <<>>]

(* guide_generator.py 449-503: except Exception as e: raise Exception(...) *)
BatchFailure(e) == [res |-> <<>>, exc |-> <<BatchErrorPrefix, e>>]

MutStreamFailure(e) == <<StreamErrorPrefix>>

(* guide_generator.py 711-734 *)
StreamFailure(e) == <<StreamErrorPrefix, e>>

MutYieldChunk(out, text_chunk) == <<text_chunk>> \o out

(* guide_generator.py 700: yield text_chunk *)
YieldChunk(out, text_chunk) == Append(out, text_chunk)

MutAccumulate(acc, chunk) == IF StripIsEmpty(chunk) THEN acc ELSE acc \o chunk

(* guide_generator.py 757: full_content += chunk *)
Accumulate(acc, chunk) == acc \o chunk

MutRequestsAfterFailure(reqs, cfg) ==
    IF cfg.streaming_error_retry \/ cfg.streaming_fallback_enabled
    THEN Append(reqs, reqs[Len(reqs)])
    ELSE reqs

(* guide_generator.py 449-503 and 711-734: the exception handlers wrap and  *)
(* re-raise; they make no call on the client and read neither               *)
(* config.streaming_error_retry nor config.streaming_fallback_enabled       *)
RequestsAfterFailure(reqs, cfg) == reqs

(* what the event-loop thread does while the coroutine waits for the remote *)
(* side: it runs other tasks, or it is held inside a blocking call          *)
LoopFree == "free"
LoopBlocked == "blocked"

(* guide_generator.py 316 and 688: await asyncio.to_thread(...) suspends the *)
(* coroutine; the blocking client call runs in a worker thread              *)
AwaitToThread == LoopFree

(* guide_generator.py 694: for event in response_stream, a plain for over   *)
(* the synchronous client's stream inside the coroutine; each next() waits  *)
(* for the remote side on the event-loop thread                             *)
NextEvent == LoopBlocked

----------------------------------------------------------------------------
(* Guide client: actions *)

(* generate_topic_guide up to its await: prompt built, request handed to the thread *)
BatchStart ==
    /\ pc = "start" /\ mode = "batch"
    /\ prompt' = BatchPrompt(topic, thinking, level)
    /\ requests' = Append(requests, BatchRequest(prompt'))
    /\ pc' = "waiting"
    /\ UNCHANGED <<mode, topic, thinking, level, remoteError, received, delivered,
                   accumulated_content, full_content, result, raised>>
    /\ loop' = AwaitToThread
    /\ UNCHANGED progressed
    /\ UNCHANGED fileVars
    /\ UNCHANGED extVars

(* the remote call returns: lines 359-447, or the handler when extraction raises *)
BatchReturn ==
    /\ pc = "waiting" /\ mode = "batch"
    /\ \E response \in Responses, ts \in IsoStamps :
          IF response = <<>>
          THEN /\ remoteError' = <<"list index out of range">>
               /\ result' = BatchFailure("list index out of range").res
               /\ raised' = BatchFailure("list index out of range").exc
               /\ pc' = "failed"
          ELSE IF ~response[1].hasText
          THEN /\ remoteError' = <<"object has no attribute 'text'">>
               /\ result' = BatchFailure("object has no attribute 'text'").res
               /\ raised' = BatchFailure("object has no attribute 'text'").exc
               /\ pc' = "failed"
          ELSE /\ result' = <<BatchResult(topic, response[1].text, ts)>>
               /\ pc' = "done"
               /\ UNCHANGED <<remoteError, raised>>
    /\ requests' = IF pc' = "failed" THEN RequestsAfterFailure(requests, config)
                                     ELSE requests
    /\ UNCHANGED <<mode, topic, thinking, level, prompt, received, delivered,
                   accumulated_content, full_content>>
    /\ loop' = LoopFree
    /\ UNCHANGED progressed
    /\ UNCHANGED fileVars
    /\ UNCHANGED extVars

(* the remote call raises: lines 449-503 *)
BatchRaise ==
    /\ pc = "waiting" /\ mode = "batch"
    /\ \E e \in RemoteErrors :
          /\ remoteError' = <<e>>
          /\ result' = BatchFailure(e).res
          /\ raised' = BatchFailure(e).exc
    /\ pc' = "failed"
    /\ requests' = RequestsAfterFailure(requests, config)
    /\ UNCHANGED <<mode, topic, thinking, level, prompt, received, delivered,
                   accumulated_content, full_content>>
    /\ loop' = LoopFree
    /\ UNCHANGED progressed
    /\ UNCHANGED fileVars
    /\ UNCHANGED extVars

(* stream_topic_guide up to its await (for the adapter: line 755 first) *)
StreamStart ==
    /\ pc = "start" /\ mode \in {"stream", "adapter"}
    /\ prompt' = StreamPrompt(topic, thinking, level)
    /\ requests' = Append(requests, StreamRequest(prompt'))
    /\ full_content' = <<>>
    /\ pc' = "waiting"
    /\ UNCHANGED <<mode, topic, thinking, level, remoteError, received, delivered,
                   accumulated_content, result, raised>>
    /\ loop' = AwaitToThread
    /\ UNCHANGED progressed
    /\ UNCHANGED fileVars
    /\ UNCHANGED extVars

(* create_streaming_request returns the stream: lines 688-691 *)
StreamOpen ==
    /\ pc = "waiting" /\ mode \in {"stream", "adapter"}
    /\ accumulated_content' = <<>>
    /\ pc' = "streaming"
    /\ UNCHANGED <<mode, topic, thinking, level, prompt, requests, remoteError, received,
                   delivered, full_content, result, raised>>
    /\ loop' = NextEvent
    /\ UNCHANGED progressed
    /\ UNCHANGED fileVars
    /\ UNCHANGED extVars

(* create_streaming_request raises: lines 711-734 *)
StreamCreateRaise ==
    /\ pc = "waiting" /\ mode \in {"stream", "adapter"}
    /\ \E e \in RemoteErrors :
          /\ remoteError' = <<e>>
          /\ raised' = StreamFailure(e)
    /\ pc' = "failed"
    /\ requests' = RequestsAfterFailure(requests, config)
    /\ UNCHANGED <<mode, topic, thinking, level, prompt, received, delivered,
                   accumulated_content, full_content, result>>
    /\ loop' = LoopFree
    /\ UNCHANGED progressed
    /\ UNCHANGED fileVars
    /\ UNCHANGED extVars

(* one iteration of the for loop, lines 694-705; in adapter mode the yield *)
(* runs the consumer's loop body, line 757                                 *)
StreamEvent ==
    /\ pc = "streaming" /\ Len(received) < MaxEvents
    /\ \E event \in Events :
          /\ received' = Append(received, event)
          /\ IF IsTextChunk(event)
             THEN /\ accumulated_content' = accumulated_content \o event.text
                  /\ delivered' = YieldChunk(delivered, event.text)
                  /\ full_content' = IF mode = "adapter"
                                     THEN Accumulate(full_content, event.text)
                                     ELSE full_content
             ELSE UNCHANGED <<accumulated_content, delivered, full_content>>
    /\ UNCHANGED <<mode, pc, topic, thinking, level, prompt, requests, remoteError,
                   result, raised>>
    /\ loop' = NextEvent
    /\ UNCHANGED progressed
    /\ UNCHANGED fileVars
    /\ UNCHANGED extVars

MutStreamEventRaise ==
    /\ pc = "streaming"
    /\ \E e \in RemoteErrors, ts \in IsoStamps :
          /\ remoteError' = <<e>>
          /\ raised' = StreamFailure(e)
          /\ result' = IF mode = "adapter"
                        THEN <<StreamingResult(topic, full_content, ts)>>
                        ELSE result
    /\ pc' = "failed"
    /\ requests' = RequestsAfterFailure(requests, config)
    /\ UNCHANGED <<mode, topic, thinking, level, prompt, received, delivered,
                   accumulated_content, full_content>>
    /\ loop' = LoopFree
    /\ UNCHANGED progressed
    /\ UNCHANGED fileVars
    /\ UNCHANGED extVars

(* retrieving the next event raises: lines 711-734 *)
StreamEventRaise ==
    /\ pc = "streaming"
    /\ \E e \in RemoteErrors :
          /\ remoteError' = <<e>>
          /\ raised' = StreamFailure(e)
    /\ pc' = "failed"
    /\ requests' = RequestsAfterFailure(requests, config)
    /\ UNCHANGED <<mode, topic, thinking, level, prompt, received, delivered,
                   accumulated_content, full_content, result>>
    /\ loop' = LoopFree
    /\ UNCHANGED progressed
    /\ UNCHANGED fileVars
    /\ UNCHANGED extVars

(* the iterator is exhausted: lines 707-709, then 711-734 or the adapter's return *)
StreamEnd ==
    /\ pc = "streaming"
    /\ IF StripIsEmpty(accumulated_content)
       THEN /\ raised' = StreamFailure(NoContentMessage)
            /\ pc' = "failed"
            /\ UNCHANGED result
       ELSE /\ pc' = "done"
            /\ IF mode = "adapter"
               THEN \E ts \in IsoStamps :
                       result' = <<StreamingResult(topic, full_content, ts)>>
               ELSE UNCHANGED result
            /\ UNCHANGED raised
    /\ requests' = IF pc' = "failed" THEN RequestsAfterFailure(requests, config)
                                     ELSE requests
    /\ UNCHANGED <<mode, topic, thinking, level, prompt, remoteError, received,
                   delivered, accumulated_content, full_content>>
    /\ loop' = LoopFree
    /\ UNCHANGED progressed
    /\ UNCHANGED fileVars
    /\ UNCHANGED extVars

(* the event loop runs another task of the caller while the request is in  *)
(* flight, e.g. the progress display of cli.py 281-333                     *)
MainTaskStep ==
    /\ pc \in {"waiting", "streaming"}
    /\ loop = LoopFree
    /\ ~progressed
    /\ progressed' = TRUE
    /\ UNCHANGED <<mode, pc, topic, thinking, level, prompt, requests, remoteError,
                   received, delivered, accumulated_content, full_content, result,
                   raised, loop>>
    /\ UNCHANGED fileVars
    /\ UNCHANGED extVars

----------------------------------------------------------------------------
(* Specifications of the guide client *)

TopicChars == {"v", "O", " ", "## Prerequisites"}
Topics == SeqsUpTo(TopicChars, MaxTopicLen)
Levels == {"basic", "detailed", "expert", "Detailed"}

FileIdle ==
    /\ fpc = "idle" /\ title = <<>> /\ cleaned = <<>> /\ recleaned = <<>>
    /\ metadata = <<>> /\ content = <<>> /\ fileText = <<>>

GenFresh ==
    /\ pc = "start" /\ prompt = <<>> /\ requests = <<>> /\ remoteError = <<>>
    /\ received = <<>> /\ delivered = <<>> /\ accumulated_content = <<>>
    /\ full_content = <<>> /\ result = <<>> /\ raised = <<>>
    /\ loop = LoopFree /\ progressed = FALSE

(* prompt construction over every topic and thinking configuration *)
InitPrompt ==
    /\ mode \in {"batch", "stream"}
    /\ topic \in Topics
    /\ thinking \in BOOLEAN
    /\ level \in Levels
    /\ GenFresh
    /\ FileIdle
    /\ ConfigIdle
    /\ ExtIdle

NextPrompt == BatchStart \/ StreamStart

SpecPrompt == InitPrompt /\ [][NextPrompt]_vars

GenTopics == {<<"v">>, <<"v", "O", " ", "v">>}

(* MYVISION_STREAMING_RETRY and MYVISION_STREAMING_FALLBACK, config.py 162-164 *)
FlagConfigs ==
    { [DefaultConfig EXCEPT !.streaming_error_retry = r,
                            !.streaming_fallback_enabled = f] : r, f \in BOOLEAN }

Init ==
    /\ mode \in {"batch", "stream", "adapter"}
    /\ topic \in GenTopics
    /\ thinking \in BOOLEAN
    /\ level \in {"basic", "expert"}
    /\ GenFresh
    /\ FileIdle
    /\ config \in FlagConfigs
    /\ ExtIdle

Next ==
    \/ BatchStart
    \/ BatchReturn
    \/ BatchRaise
    \/ StreamStart
    \/ StreamOpen
    \/ StreamCreateRaise
    \/ StreamEvent
    \/ StreamEventRaise
    \/ StreamEnd
    \/ MainTaskStep

Spec == Init /\ [][Next]_vars

----------------------------------------------------------------------------
(* Properties of the prompt builder *)

IsHeaderTok(x) == \E i \in 1..Len(Headers) : Headers[i] = x
HeaderOccurrences(p) == SelectSeq(p, IsHeaderTok)

Contains(s, sub) ==
    \E i \in 0..(Len(s) - Len(sub)) : SubSeq(s, i + 1, i + Len(sub)) = sub

FirstIndex(p, tok) == CHOOSE i \in 1..Len(p) : p[i] = tok /\ \A k \in 1..(i-1) : p[k] # tok

(* the text between the "# " that opens the title line and " - Learning Guide" *)
TitleLineText(p) == SubSeq(p, FirstIndex(p, "# ") + 1, FirstIndex(p, TitleSuffix) - 1)

(* the text of the request line after "... learning guide for: " *)
RequestLineText(p) ==
    LET i == FirstIndex(p, RequestLead)
        j == CHOOSE k \in (i+1)..Len(p) : p[k] = NL /\ \A m \in (i+1)..(k-1) : p[m] # NL
    IN SubSeq(p, i + 1, j - 1)

RemoveRange(s, lo, hi) == SubSeq(s, 1, lo - 1) \o SubSeq(s, hi + 1, Len(s))

(* the prompt without the two interpolated texts: the template alone *)
TemplatePart(p, n) ==
    LET j == FirstIndex(p, "# ")
        q == RemoveRange(p, j + 1, j + n)
        i == FirstIndex(q, RequestLead)
    IN RemoveRange(q, i + 1, i + n)

PromptBuilt == pc # "start"

(* C1 as stated: the built prompt holds the six section headers each exactly *)
(* once and in order, and its title line holds the topic character for       *)
(* character.                                                                *)
C1_HeadersAndVerbatimTitle ==
    PromptBuilt =>
        /\ HeaderOccurrences(prompt) = Headers
        /\ Contains(TitleLineText(prompt), topic)

(* C1 amended: the template outside the interpolated texts holds the six     *)
(* section headers each exactly once and in order; the request line holds    *)
(* the topic verbatim; the title line holds topic.title(), which equals the  *)
(* topic up to letter case.                                                  *)
C1_HeadersAndTitleCasedTitle ==
    PromptBuilt =>
        /\ HeaderOccurrences(TemplatePart(prompt, Len(topic))) = Headers
        /\ RequestLineText(prompt) = topic
        /\ TitleLineText(prompt) = Title(topic)
        /\ Lower(TitleLineText(prompt)) = Lower(topic)
        /\ (\A i \in 1..Len(topic) : ~IsHeaderTok(topic[i]))
              => HeaderOccurrences(prompt) = Headers

C1_Witness ==
    /\ PromptBuilt /\ mode = "stream" /\ thinking
    /\ topic = <<"v", "O">>
    /\ TitleLineText(prompt) = <<"V", "o">>

(* C2: with thinking mode on, the prompt is the base prompt followed by the  *)
(* one block its level selects (detailed, expert, anything else: basic);     *)
(* with thinking mode off it is the base prompt.                             *)
C2_ThinkingBlockByLevel ==
    PromptBuilt =>
        LET base == IF mode = "batch" THEN BatchBasePrompt(topic)
                                      ELSE StreamBasePrompt(topic)
        IN /\ ~thinking => prompt = base
           /\ (thinking /\ level = "detailed") => prompt = base \o DetailedBlock
           /\ (thinking /\ level = "expert") => prompt = base \o ExpertBlock
           /\ (thinking /\ level \notin {"detailed", "expert"})
                 => prompt = base \o BasicBlock
           /\ DetailedBlock # ExpertBlock /\ ExpertBlock # BasicBlock
           /\ BasicBlock # DetailedBlock

C2_Witness ==
    /\ PromptBuilt /\ thinking /\ level = "Detailed"
    /\ Contains(prompt, <<"IMPORTANT: Think out loud as you create this guide.">>)

----------------------------------------------------------------------------
(* Properties of the guide client *)

Streaming == mode \in {"stream", "adapter"}

(* the event iterator ran to its end (no exception came from the remote side) *)
StreamCompleted == Streaming /\ pc \in {"done", "failed"} /\ remoteError = <<>>

IsTextDeltaEvent(ev) == ev.type = "content_block_delta" /\ ev.hasText

RECURSIVE DeltaTexts(_)
DeltaTexts(evs) ==
    IF evs = <<>> THEN <<>>
    ELSE IF IsTextDeltaEvent(Head(evs))
         THEN <<Head(evs).text>> \o DeltaTexts(Tail(evs))
         ELSE DeltaTexts(Tail(evs))

(* C3: in batch mode a failure of the remote call or of the text extraction *)
(* yields no result and an exception whose message embeds the original      *)
(* error text; a result exists only when nothing failed.                    *)
C3_BatchFailureSurfaced ==
    mode = "batch" =>
        /\ remoteError # <<>> =>
              /\ result = <<>>
              /\ pc = "failed"
              /\ Len(raised) = 2 /\ raised[2] = remoteError[1]
        /\ result # <<>> => (remoteError = <<>> /\ raised = <<>>)

C3_Witness ==
    /\ mode = "batch" /\ pc = "failed"
    /\ remoteError = <<"list index out of range">>
    /\ raised = <<BatchErrorPrefix, "list index out of range">>

(* C4: a stream that completes with zero text-delta events ends with the    *)
(* no-content error and has delivered nothing; a failure of the request or  *)
(* of an event retrieval ends with an error embedding the original text.    *)
C4_StreamErrors ==
    Streaming =>
        /\ (StreamCompleted /\ DeltaTexts(received) = <<>>) =>
              /\ pc = "failed"
              /\ raised = <<StreamErrorPrefix, NoContentMessage>>
              /\ delivered = <<>>
        /\ remoteError # <<>> =>
              /\ pc = "failed"
              /\ Len(raised) = 2 /\ raised[1] = StreamErrorPrefix
              /\ raised[2] = remoteError[1]

C4_Witness ==
    /\ StreamCompleted /\ received = <<MessageStop, JsonDelta>>
    /\ raised = <<StreamErrorPrefix, NoContentMessage>>

(* C5: at every moment the fragments delivered are exactly the texts of the *)
(* text-delta events received so far, in order.                             *)
C5_FragmentsInOrder ==
    Streaming => delivered = DeltaTexts(received)

C5_Witness ==
    /\ mode = "stream"
    /\ received = <<TextDelta(<<"b">>), MessageStop, TextDelta(<<"a">>)>>
    /\ delivered = << <<"b">>, <<"a">> >>

(* C6: the adapter's result holds the concatenation of all delivered        *)
(* fragments, in order, untrimmed.                                          *)
C6_AdapterContent ==
    (mode = "adapter" /\ pc = "done") =>
        /\ Len(result) = 1
        /\ result[1].content = Flatten(delivered)

C6_Witness ==
    /\ mode = "adapter" /\ pc = "done"
    /\ delivered = << <<" ">>, <<"a">>, <<" ">> >>
    /\ result[1].content = <<" ", "a", " ">>

----------------------------------------------------------------------------
(* File manager: _clean_filename *)

MaxFilenameLen == 50

IsDigit(c) == c \in {"1"}
IsSpace(c) == c \in {" ", NL}

(* \w of a Python 3 str pattern: letters, digits and the underscore *)
IsWordChar(c) == IsLetter(c) \/ IsDigit(c) \/ c = "_"

(* file_manager.py 249: the characters [^\w\s-] does not match *)
KeptBySub(c) == IsWordChar(c) \/ IsSpace(c) \/ c = "-"

(* file_manager.py 249: re.sub(r'[^\w\s-]', '', text) *)
RemoveSpecial(s) == SelectSeq(s, KeptBySub)

IsSeparator(c) == c = "-" \/ IsSpace(c)

(* file_manager.py 252: re.sub(r'[-\s]+', '_', text) *)
RECURSIVE CollapseSeparators(_)
CollapseSeparators(s) ==
    IF s = <<>> THEN <<>>
    ELSE IF IsSeparator(Head(s))
         THEN IF Len(s) > 1 /\ IsSeparator(s[2])
              THEN CollapseSeparators(Tail(s))
              ELSE <<"_">> \o CollapseSeparators(Tail(s))
         ELSE <<Head(s)>> \o CollapseSeparators(Tail(s))

RECURSIVE LStripUnderscores(_)
LStripUnderscores(s) ==
    IF s # <<>> /\ Head(s) = "_" THEN LStripUnderscores(Tail(s)) ELSE s

(* str.rstrip('_') *)
RECURSIVE RStripUnderscores(_)
RStripUnderscores(s) ==
    IF s # <<>> /\ s[Len(s)] = "_" THEN RStripUnderscores(SubSeq(s, 1, Len(s) - 1)) ELSE s

MutStripUnderscores(s) == LStripUnderscores(s)

(* file_manager.py 255: text.strip('_') *)
StripUnderscores(s) == RStripUnderscores(LStripUnderscores(s))

MutLimitLength(s) ==
    IF Len(s) > MaxFilenameLen THEN SubSeq(s, 1, MaxFilenameLen) ELSE s

(* file_manager.py 258-259 *)
LimitLength(s) ==
    IF Len(s) > MaxFilenameLen THEN RStripUnderscores(SubSeq(s, 1, MaxFilenameLen)) ELSE s

MutNormalizeCase(s) == s

(* file_manager.py 246: text.lower() *)
NormalizeCase(s) == Lower(s)

(* file_manager.py 246-255: the text before the length limit *)
CleanedForm(text) == StripUnderscores(CollapseSeparators(RemoveSpecial(NormalizeCase(text))))

(* file_manager.py 238-261 *)
CleanFilename(text) == LimitLength(CleanedForm(text))

CleanChars == {"a", "B", " ", "-", "_", "!", DoubleStruckC}
Pad(n) == [i \in 1..n |-> "1"]
PadLens == {0} \cup ((MaxFilenameLen - 3)..MaxFilenameLen)
Titles ==
    {h \o Pad(n) \o t : h \in SeqsUpTo(CleanChars, MaxHead), n \in PadLens,
                        t \in SeqsUpTo(CleanChars, MaxEdge)}

(* _clean_filename(title) *)
CleanTitle ==
    /\ fpc = "clean"
    /\ cleaned' = CleanFilename(title)
    /\ fpc' = "cleaned"
    /\ UNCHANGED <<title, recleaned, metadata, content, fileText>>
    /\ UNCHANGED genVars
    /\ UNCHANGED extVars

(* _clean_filename applied to its own result *)
CleanAgain ==
    /\ fpc = "cleaned"
    /\ recleaned' = CleanFilename(cleaned)
    /\ fpc' = "recleaned"
    /\ UNCHANGED <<title, cleaned, metadata, content, fileText>>
    /\ UNCHANGED genVars
    /\ UNCHANGED extVars

GenIdle ==
    /\ mode = "batch" /\ topic = <<>> /\ thinking = FALSE /\ level = "basic"
    /\ pc = "idle" /\ prompt = <<>> /\ requests = <<>> /\ remoteError = <<>>
    /\ received = <<>> /\ delivered = <<>> /\ accumulated_content = <<>>
    /\ full_content = <<>> /\ result = <<>> /\ raised = <<>>
    /\ loop = LoopFree /\ progressed = FALSE

InitClean ==
    /\ GenIdle
    /\ ConfigIdle
    /\ ExtIdle
    /\ fpc = "clean"
    /\ title \in Titles
    /\ cleaned = <<>> /\ recleaned = <<>>
    /\ metadata = <<>> /\ content = <<>> /\ fileText = <<>>

NextClean == CleanTitle \/ CleanAgain

SpecClean == InitClean /\ [][NextClean]_vars

----------------------------------------------------------------------------
(* Properties of _clean_filename *)

SwapCaseTok(c) == IF LowerTok(c) = c THEN UpperTok(c) ELSE LowerTok(c)
Upper(s) == [i \in 1..Len(s) |-> UpperTok(s[i])]
SwapCase(s) == [i \in 1..Len(s) |-> SwapCaseTok(s[i])]

HasAdjacentUnderscores(s) == \E i \in 1..(Len(s) - 1) : s[i] = "_" /\ s[i+1] = "_"

IsSymbol(c) == ~(IsLetter(c) \/ IsDigit(c) \/ IsSpace(c) \/ c = "-" \/ c = "_")
HasSeparator(s) == \E i \in 1..Len(s) : IsSeparator(s[i])
IsPrefix(a, b) == Len(a) <= Len(b) /\ SubSeq(b, 1, Len(a)) = a

(* C8: cleaning is idempotent, and titles that differ only in letter case   *)
(* clean to the same result.                                                *)
C8_IdempotentCaseInsensitive ==
    /\ fpc = "recleaned" => recleaned = cleaned
    /\ fpc \in {"cleaned", "recleaned"} =>
          /\ CleanFilename(Lower(title)) = cleaned
          /\ CleanFilename(Upper(title)) = cleaned
          /\ CleanFilename(SwapCase(title)) = cleaned

C8_Witness ==
    /\ fpc = "recleaned"
    /\ title = <<"B">> \o Pad(MaxFilenameLen - 1) \o <<"-", "a">>
    /\ cleaned = <<"b">> \o Pad(MaxFilenameLen - 1)
    /\ recleaned = cleaned

(* C9 as stated: no character of the title other than a letter, digit,      *)
(* space or hyphen survives (an underscore typed in the title included), so *)
(* an underscore of the result stands for a run of whitespace and hyphens,  *)
(* and the result never holds two adjacent underscores.                     *)
C9_OnlyDocumentedCharsSurvive ==
    fpc \in {"cleaned", "recleaned"} =>
        /\ \A i \in 1..Len(cleaned) : ~IsSymbol(cleaned[i])
        /\ ~HasSeparator(title) => (\A i \in 1..Len(cleaned) : cleaned[i] # "_")
        /\ ~HasAdjacentUnderscores(cleaned)

(* C10: a cleaned form longer than 50 characters is cut to its first 50 and *)
(* loses the underscores that end the cut; a cleaned form of at most 50     *)
(* characters is returned whole; an empty or symbol-only title gives the    *)
(* empty string.                                                            *)
C10_LengthBoundary ==
    fpc \in {"cleaned", "recleaned"} =>
        LET full == CleanedForm(title)
        IN /\ Len(full) > MaxFilenameLen =>
                 /\ IsPrefix(cleaned, full)
                 /\ Len(cleaned) <= MaxFilenameLen
                 /\ (cleaned # <<>> => cleaned[Len(cleaned)] # "_")
                 /\ \A k \in (Len(cleaned) + 1)..MaxFilenameLen : full[k] = "_"
           /\ Len(full) <= MaxFilenameLen => cleaned = full
           /\ (\A i \in 1..Len(title) : IsSymbol(title[i]) \/ title[i] = "_")
                 => cleaned = <<>>

C10_Witness ==
    /\ fpc = "cleaned"
    /\ title = Pad(MaxFilenameLen - 1) \o <<" ", "a">>
    /\ cleaned = Pad(MaxFilenameLen - 1)

----------------------------------------------------------------------------
(* File manager: the Markdown writer *)

Delimiter == <<"-", "-", "-">>

(* the "{value}" of an f-string: str(value) *)
FormatValue(v) ==
    CASE v.kind = "str" -> v.text
      [] v.kind = "bool" -> IF v.flag THEN <<"T", "r", "u", "e">>
                                      ELSE <<"F", "a", "l", "s", "e">>
      [] OTHER -> <<"N", "o", "n", "e">>

(* file_manager.py 345-347: one "key: value" line per entry that is not None *)
RECURSIVE HeaderLines(_)
HeaderLines(md) ==
    IF md = <<>> THEN <<>>
    ELSE IF Head(md).value.kind # "none"
         THEN << <<Head(md).key, ":", " ">> \o FormatValue(Head(md).value) >>
                 \o HeaderLines(Tail(md))
         ELSE HeaderLines(Tail(md))

(* "\n".join(lines) *)
RECURSIVE JoinLines(_)
JoinLines(ls) ==
    IF ls = <<>> THEN <<>>
    ELSE IF Len(ls) = 1 THEN Head(ls)
    ELSE Head(ls) \o <<NL>> \o JoinLines(Tail(ls))

(* file_manager.py 336-351 *)
CreateMetadataHeader(md) == JoinLines(<<Delimiter>> \o HeaderLines(md) \o <<Delimiter>>)

(* file_manager.py 289-292: f"{metadata_header}\n\n{content}" *)
MarkdownText(md, c) == CreateMetadataHeader(md) \o <<NL, NL>> \o c

(* file_manager.py 264-299 *)
SaveMarkdownGuide ==
    /\ fpc = "save"
    /\ fileText' = <<MarkdownText(metadata, content)>>
    /\ fpc' = "saved"
    /\ UNCHANGED <<title, cleaned, recleaned, metadata, content>>
    /\ UNCHANGED genVars
    /\ UNCHANGED extVars

MetaKeys == {"topic", "type", "client_name"}
ValueChars == {"a", ":", " ", NL}
MetaValues ==
    {StrVal(t) : t \in SeqsUpTo(ValueChars, MaxValueLen)} \cup {NoneVal, BoolVal(TRUE)}
MetaEntries == {Entry(k, v) : k \in MetaKeys, v \in MetaValues}

(* ordered mappings: no key twice *)
MetaMaps ==
    {m \in SeqsUpTo(MetaEntries, MaxMeta) :
        \A i, j \in 1..Len(m) : m[i].key = m[j].key => i = j}

ContentChars == {"a", " ", NL}
Contents == SeqsUpTo(ContentChars, MaxContentLen)

InitMarkdown ==
    /\ GenIdle
    /\ ConfigIdle
    /\ ExtIdle
    /\ fpc = "save"
    /\ title = <<>> /\ cleaned = <<>> /\ recleaned = <<>>
    /\ metadata \in MetaMaps
    /\ content \in Contents
    /\ fileText = <<>>

NextMarkdown == SaveMarkdownGuide

SpecMarkdown == InitMarkdown /\ [][NextMarkdown]_vars

----------------------------------------------------------------------------
(* Reading a Markdown guide back *)

(* str.split("\n") *)
RECURSIVE SplitLines(_, _)
SplitLines(s, cur) ==
    IF s = <<>> THEN <<cur>>
    ELSE IF Head(s) = NL THEN <<cur>> \o SplitLines(Tail(s), <<>>)
    ELSE SplitLines(Tail(s), Append(cur, Head(s)))

HasSplitPoint(l) == \E i \in 1..(Len(l) - 1) : l[i] = ":" /\ l[i+1] = " "

SplitPoint(l) ==
    CHOOSE i \in 1..(Len(l) - 1) :
        /\ l[i] = ":" /\ l[i+1] = " "
        /\ \A k \in 1..(i-1) : ~(l[k] = ":" /\ l[k+1] = " ")

(* a header line split at its first ": " (a line without one has no value) *)
ParseHeaderLine(l) ==
    IF HasSplitPoint(l)
    THEN [key |-> SubSeq(l, 1, SplitPoint(l) - 1), text |-> SubSeq(l, SplitPoint(l) + 2, Len(l))]
    ELSE [key |-> l, text |-> <<"<no value>">>]

(* index of the line that closes the header: the first "---" after line 1 *)
ClosingLine(ls) ==
    CHOOSE i \in 2..Len(ls) : ls[i] = Delimiter /\ \A k \in 2..(i-1) : ls[k] # Delimiter

ReadHeader(text) ==
    LET ls == SplitLines(text, <<>>)
    IN [i \in 1..(ClosingLine(ls) - 2) |-> ParseHeaderLine(ls[i + 1])]

(* the text after the blank line that follows the closing delimiter *)
ReadContent(text) ==
    LET ls == SplitLines(text, <<>>)
        c == ClosingLine(ls)
    IN JoinLines(SubSeq(ls, c + 2, Len(ls)))

(* the keys and values passed in, without the null-valued entries *)
RECURSIVE NonNullEntries(_)
NonNullEntries(md) ==
    IF md = <<>> THEN <<>>
    ELSE IF Head(md).value.kind = "none" THEN NonNullEntries(Tail(md))
    ELSE << [key |-> <<Head(md).key>>, text |-> FormatValue(Head(md).value)] >>
            \o NonNullEntries(Tail(md))

(* C7 as stated: reading a saved Markdown guide back recovers exactly the   *)
(* non-null keys and values passed in, in order, and the unmodified content.*)
C7_MarkdownRoundTrip ==
    fpc = "saved" =>
        /\ ReadHeader(fileText[1]) = NonNullEntries(metadata)
        /\ ReadContent(fileText[1]) = content

----------------------------------------------------------------------------
(* Filename generation and the files on disk (file_manager.py 132-299) *)

TicksPerSecond == 2
MaxTicks == 3
MaxCalls == 2

(* datetime.now().strftime("%Y%m%d_%H%M%S"): the clock cut to whole seconds; *)
(* the model's day starts at 14:30:00 on 2024-06-08                          *)
Timestamp(t) == <<"20240608_14300", ToString(t \div TicksPerSecond)>>

MdExtension == <<"m", "d">>
DocxExtension == <<"d", "o", "c", "x">>

MutExtension(fmt) == IF fmt = "docx" THEN DocxExtension ELSE MdExtension

(* file_manager.py 230 *)
Extension(fmt) == IF fmt = "markdown" THEN MdExtension ELSE DocxExtension

GuideInfix == <<"_", "g", "u", "i", "d", "e", "_">>

(* file_manager.py 223-235; t is the clock when line 227 runs *)
GenerateFilename(ttl, guide_type, fmt, t) ==
    CleanFilename(ttl) \o <<"_">> \o guide_type \o GuideInfix \o Timestamp(t)
        \o <<".">> \o Extension(fmt)

(* a file under Learning_Guides: blocks holds the paragraphs of a styled     *)
(* document, text the characters of a Markdown file                          *)
File(name, kind, text, blocks, complete) ==
    [name |-> name, kind |-> kind, text |-> text, blocks |-> blocks,
     complete |-> complete]

(* open(file_path, 'w'): an existing file of that name is replaced *)
WriteFile(d, f) == {g \in d : g.name # f.name} \cup {f}

LearningType == <<"l", "e", "a", "r", "n", "i", "n", "g">>
DefaultType == <<"g", "u", "i", "d", "e">>

NameTitles == {<<"v", "O", " ", "b">>, <<"a", "!">>}
GuideTypes == {LearningType, DefaultType}
Formats == {"markdown", "docx", "Markdown", "pdf"}
SavedContents == {<<"a">>, <<"b">>}

(* one call of generate_filename, some time after the previous call *)
NameGenerate ==
    /\ cpc = "ready"
    /\ Len(issued) < MaxCalls
    /\ \E ttl \in NameTitles, g \in GuideTypes, fmt \in Formats,
          t \in (now + 1)..MaxTicks :
          /\ now' = t
          /\ filename' = GenerateFilename(ttl, g, fmt, t)
          /\ issued' = Append(issued, [title |-> ttl, guide_type |-> g,
                                        format_type |-> fmt, at |-> t,
                                        name |-> filename'])
    /\ cpc' = "issued"
    /\ UNCHANGED <<config, logoFile, disk, cmd, format_type, console, escaped,
                   validation, doc>>
    /\ UNCHANGED genVars
    /\ UNCHANGED fileVars

(* save_markdown_guide(content, metadata, filename) with the name just made *)
NameSave ==
    /\ cpc = "issued"
    /\ \E c \in SavedContents :
          disk' = WriteFile(disk,
                      File(filename, "markdown",
                           MarkdownText(<<Entry("topic", StrVal(c))>>, c),
                           <<>>, TRUE))
    /\ cpc' = "ready"
    /\ UNCHANGED <<config, logoFile, now, issued, filename, cmd, format_type,
                   console, escaped, validation, doc>>
    /\ UNCHANGED genVars
    /\ UNCHANGED fileVars

InitNames ==
    /\ GenIdle
    /\ FileIdle
    /\ ConfigIdle
    /\ logoFile = "missing" /\ now = 0 /\ issued = <<>> /\ filename = <<>>
    /\ disk = {} /\ cmd = "none" /\ cpc = "ready" /\ format_type = "markdown"
    /\ console = <<>> /\ escaped = <<>> /\ validation = <<>> /\ doc = <<>>

NextNames == NameGenerate \/ NameSave

SpecNames == InitNames /\ [][NextNames]_vars

----------------------------------------------------------------------------
(* Properties of filename generation *)

LastN(s, n) == SubSeq(s, Len(s) - n + 1, Len(s))

(* the second the clock showed at tick t *)
SecondOf(t) == t \div TicksPerSecond

C13_UniqueNamesNoOverwrite ==
    /\ \A i, j \in 1..Len(issued) : i # j => issued[i].name # issued[j].name
    /\ cpc = "ready" => Cardinality(disk) = Len(issued)

----------------------------------------------------------------------------
(* The styled document (file_manager.py 302-790).  A Document is the        *)
(* sequence of its paragraphs; a paragraph has a style, runs and the        *)
(* space_before attribute the code sets on it (0 when it sets none).  A run *)
(* carries its text, font size (0: inherited), bold, italic, and whether it *)
(* holds an inline picture.  Characters outside ASCII are written as        *)
(* "(U+...)" inside a fragment token.                                       *)

OrgName == "MyVision Oxfordshire"
ContactBlock == "MyVision Oxfordshire\nEmail: info@myvision.org.uk\nWeb: www.myvision.org.uk"
SeparatorText == "(U+25CF)*25"
MidDot == " (U+2022) "
DateToday == "June 08, 2024"

Run(text, size, bold, italic) ==
    [text |-> text, size |-> size, bold |-> bold, italic |-> italic, picture |-> FALSE]

EmptyRun == Run(<<>>, 0, FALSE, FALSE)
PictureRun == [EmptyRun EXCEPT !.picture = TRUE]

Paragraph(style, runs, space_before) ==
    [style |-> style, runs |-> runs, space_before |-> space_before]

(* dict.get(key) and "key in dict" on the ordered metadata mapping *)
HasKey(md, k) == \E i \in 1..Len(md) : md[i].key = k
MetaGet(md, k) ==
    IF HasKey(md, k) THEN md[CHOOSE i \in 1..Len(md) : md[i].key = k].value
    ELSE NoneVal

(* truth value of a metadata value *)
Truthy(v) == (v.kind = "str" /\ v.text # <<>>) \/ (v.kind = "bool" /\ v.flag)

MutAddLogoToHeader(d, cfg, file) ==
    IF cfg.logo_path = <<>> \/ file = "missing"
    THEN [doc |-> d, added |-> FALSE]
    ELSE [doc |-> Append(d, Paragraph("Normal", <<PictureRun>>, 0)), added |-> TRUE]

(* file_manager.py 548-590.  file is what config.logo_path names on disk:   *)
(* "missing", "unreadable" (add_picture raises) or "ok".  When add_picture  *)
(* raises, the paragraph and its empty run are already in the document.     *)
AddLogoToHeader(d, cfg, file) ==
    IF cfg.logo_path = <<>> THEN [doc |-> d, added |-> FALSE]
    ELSE IF file = "missing" THEN [doc |-> d, added |-> FALSE]
    ELSE IF file = "unreadable"
         THEN [doc |-> Append(d, Paragraph("Normal", <<EmptyRun>>, 0)), added |-> FALSE]
         ELSE [doc |-> Append(d, Paragraph("Normal", <<PictureRun>>, 0)), added |-> TRUE]

(* file_manager.py 501: metadata.get("title", "Learning Guide") *)
TitleText(md) ==
    IF HasKey(md, "title") THEN FormatValue(MetaGet(md, "title"))
    ELSE <<"Learning Guide">>

(* file_manager.py 525-529 *)
DateText(md) ==
    <<"Generated: ", DateToday>> \o
    (IF Truthy(MetaGet(md, "technology")) /\ Truthy(MetaGet(md, "device"))
     THEN <<MidDot>> \o FormatValue(MetaGet(md, "technology")) \o <<" on ">>
              \o FormatValue(MetaGet(md, "device"))
     ELSE IF Truthy(MetaGet(md, "topic"))
          THEN <<MidDot>> \o FormatValue(MetaGet(md, "topic"))
          ELSE <<>>)

SeparatorParagraph(cfg) ==
    Paragraph("Normal", <<Run(<<SeparatorText>>, cfg.body_font_size, FALSE, FALSE)>>, 0)

(* file_manager.py 465-546 *)
AddDocumentHeader(d, md, cfg, file) ==
    LET logo == AddLogoToHeader(d, cfg, file)
    IN logo.doc \o
       << Paragraph("Normal", <<Run(TitleText(md), 26, TRUE, FALSE)>>,
                    IF logo.added THEN 18 ELSE 0),
          Paragraph("Normal", <<Run(<<OrgName>>, cfg.body_font_size, FALSE, TRUE)>>, 0),
          Paragraph("Normal", <<Run(DateText(md), cfg.body_font_size - 2, FALSE, FALSE)>>, 6),
          SeparatorParagraph(cfg) >>

(* str.strip() *)
RECURSIVE LStrip(_)
LStrip(s) == IF s # <<>> /\ IsWhitespace(Head(s)) THEN LStrip(Tail(s)) ELSE s

RECURSIVE RStrip(_)
RStrip(s) ==
    IF s # <<>> /\ IsWhitespace(s[Len(s)]) THEN RStrip(SubSeq(s, 1, Len(s) - 1)) ELSE s

Strip(s) == RStrip(LStrip(s))

StartsWith(s, p) == Len(p) <= Len(s) /\ SubSeq(s, 1, Len(p)) = p
DropFirst(s, n) == SubSeq(s, n + 1, Len(s))

ListDigits == {"1", "2", "3", "4", "5", "6", "7", "8", "9"}

(* line.split('. ', 1)[1]: what follows the first ". " *)
AfterFirstDotSpace(l) ==
    LET i == CHOOSE k \in 1..(Len(l) - 1) :
                 /\ l[k] = "." /\ l[k+1] = " "
                 /\ \A j \in 1..(k-1) : ~(l[j] = "." /\ l[j+1] = " ")
    IN DropFirst(l, i + 1)

(* line.split('**') *)
RECURSIVE SplitBold(_, _)
SplitBold(s, cur) ==
    IF s = <<>> THEN <<cur>>
    ELSE IF Len(s) >= 2 /\ s[1] = "*" /\ s[2] = "*"
         THEN <<cur>> \o SplitBold(DropFirst(s, 2), <<>>)
         ELSE SplitBold(Tail(s), Append(cur, Head(s)))

RECURSIVE MutBoldRuns(_, _, _)
MutBoldRuns(parts, i, cfg) ==
    IF parts = <<>> THEN <<>>
    ELSE (IF Head(parts) # <<>>
          THEN <<Run(Head(parts), cfg.body_font_size, i % 2 = 0, FALSE)>>
          ELSE <<>>)
         \o MutBoldRuns(Tail(parts), i + 1, cfg)

(* file_manager.py 706-716: a run per non-empty part, bold at odd indexes;  *)
(* i is the enumerate index of Head(parts)                                  *)
RECURSIVE BoldRuns(_, _, _)
BoldRuns(parts, i, cfg) ==
    IF parts = <<>> THEN <<>>
    ELSE (IF Head(parts) # <<>>
          THEN <<Run(Head(parts), cfg.body_font_size, i % 2 = 1, FALSE)>>
          ELSE <<>>)
         \o BoldRuns(Tail(parts), i + 1, cfg)

(* file_manager.py 617-726: the paragraph one line of the content becomes *)
ContentBlock(raw, cfg) ==
    LET line == Strip(raw)
    IN IF line = <<>> THEN Paragraph("Normal", <<>>, 0)
       ELSE IF StartsWith(line, <<"#", " ">>)
            THEN Paragraph("Heading 1",
                     <<Run(Strip(DropFirst(line, 2)), cfg.heading1_font_size, TRUE, FALSE)>>, 0)
       ELSE IF StartsWith(line, <<"#", "#", " ">>)
            THEN Paragraph("Heading 2",
                     <<Run(Strip(DropFirst(line, 3)), cfg.heading2_font_size, TRUE, FALSE)>>, 0)
       ELSE IF StartsWith(line, <<"#", "#", "#", " ">>)
            THEN Paragraph("Heading 3",
                     <<Run(Strip(DropFirst(line, 4)), cfg.heading3_font_size, TRUE, FALSE)>>, 0)
       ELSE IF StartsWith(line, <<"-", " ">>) \/ StartsWith(line, <<"*", " ">>)
            THEN Paragraph("List Bullet",
                     <<Run(DropFirst(line, 2), cfg.body_font_size, FALSE, FALSE)>>, 0)
       ELSE IF \E d \in ListDigits : StartsWith(line, <<d, ".", " ">>)
            THEN Paragraph("List Number",
                     <<Run(AfterFirstDotSpace(line), cfg.body_font_size, FALSE, FALSE)>>, 0)
       ELSE IF \E k \in 1..(Len(line) - 1) : line[k] = "*" /\ line[k+1] = "*"
            THEN Paragraph("Normal", BoldRuns(SplitBold(line, <<>>), 0, cfg), 0)
            ELSE Paragraph("Normal", <<Run(line, cfg.body_font_size, FALSE, FALSE)>>, 0)

NonBlankLine(l) == Strip(l) # <<>>

MutAddContent(c, cfg) ==
    LET ls == SelectSeq(SplitLines(c, <<>>), NonBlankLine)
    IN [i \in 1..Len(ls) |-> ContentBlock(ls[i], cfg)]

(* file_manager.py 592-726 *)
AddContent(c, cfg) ==
    LET ls == SplitLines(c, <<>>)
    IN [i \in 1..Len(ls) |-> ContentBlock(ls[i], cfg)]

(* file_manager.py 729-790 *)
DocumentFooter(cfg) ==
    << Paragraph("Normal", <<>>, 24),
       SeparatorParagraph(cfg),
       Paragraph("Normal", <<Run(<<ContactBlock>>, cfg.body_font_size - 2, FALSE, FALSE)>>, 12),
       Paragraph("Normal",
           <<Run(<<"This document has been formatted for accessibility with large print (",
                   ToString(cfg.body_font_size), "pt minimum font size)">>,
                 cfg.body_font_size - 4, FALSE, TRUE)>>, 12) >>

(* file_manager.py 354-401 *)
CreateWordDocument(c, md, cfg, file) ==
    AddDocumentHeader(<<>>, md, cfg, file) \o AddContent(c, cfg) \o DocumentFooter(cfg)

DocxName == <<"a", "_", "g", ".", "d", "o", "c", "x">>

(* file_manager.py 302-333: save_docx_guide(content, metadata, filename) *)
SaveDocxGuide ==
    /\ cpc = "docx"
    /\ doc' = CreateWordDocument(content, metadata, config, logoFile)
    /\ disk' = WriteFile(disk, File(filename, "docx", <<>>, doc', TRUE))
    /\ cpc' = "saved"
    /\ UNCHANGED <<config, logoFile, now, issued, filename, cmd, format_type,
                   console, escaped, validation>>
    /\ UNCHANGED genVars
    /\ UNCHANGED fileVars

DocxContentChars == {"a", " ", NL, "#", "*", "1", ".", "-"}
MaxDocxLen == 2

DocxMetadata ==
    { <<>>,
      <<Entry("title", StrVal(<<"T">>))>>,
      <<Entry("title", StrVal(<<"T">>)), Entry("topic", StrVal(<<"v">>))>>,
      <<Entry("topic", StrVal(<<"v">>)), Entry("technology", StrVal(<<"x">>)),
        Entry("device", StrVal(<<"d">>))>> }

InitDocx ==
    /\ GenIdle
    /\ fpc = "idle" /\ title = <<>> /\ cleaned = <<>> /\ recleaned = <<>>
    /\ fileText = <<>>
    /\ metadata \in DocxMetadata
    /\ content \in SeqsUpTo(DocxContentChars, MaxDocxLen)
    /\ config \in {DefaultConfig, [DefaultConfig EXCEPT !.logo_path = <<>>]}
    /\ logoFile \in {"missing", "unreadable", "ok"}
    /\ now = 0 /\ issued = <<>> /\ filename = DocxName
    /\ disk = {} /\ cmd = "none" /\ cpc = "docx" /\ format_type = "docx"
    /\ console = <<>> /\ escaped = <<>> /\ validation = <<>> /\ doc = <<>>

NextDocx == SaveDocxGuide

SpecDocx == InitDocx /\ [][NextDocx]_vars

(* file_manager.py 397: self._add_accessible_content_to_document(doc,       *)
(* content) on a document that holds nothing yet                            *)
AddContentToDocument ==
    /\ cpc = "content"
    /\ doc' = doc \o AddContent(content, config)
    /\ cpc' = "translated"
    /\ UNCHANGED <<config, logoFile, now, issued, filename, disk, cmd, format_type,
                   console, escaped, validation>>
    /\ UNCHANGED genVars
    /\ UNCHANGED fileVars

(* contents are built from pieces of Markdown: the prefixes the translation *)
(* looks for, near misses of them, the bold delimiter, text and line breaks *)
ContentPieces ==
    { <<"a">>, <<" ">>, <<NL>>, <<"#">>, <<"1">>,
      <<"#", " ">>, <<"#", "#", " ">>, <<"#", "#", "#", " ">>,
      <<"-", " ">>, <<"*", " ">>,
      <<"1", ".", " ">>, <<"9", ".", " ">>, <<"0", ".", " ">>,
      <<"*", "*">>, <<"*", "*", "b", "*", "*">> }
MaxPieces == 3
DocContents == {Flatten(ps) : ps \in SeqsUpTo(ContentPieces, MaxPieces)}

InitContent ==
    /\ GenIdle
    /\ fpc = "idle" /\ title = <<>> /\ cleaned = <<>> /\ recleaned = <<>>
    /\ fileText = <<>> /\ metadata = <<>>
    /\ content \in DocContents
    /\ ConfigIdle
    /\ logoFile = "missing" /\ now = 0 /\ issued = <<>> /\ filename = <<>>
    /\ disk = {} /\ cmd = "none" /\ cpc = "content" /\ format_type = "docx"
    /\ console = <<>> /\ escaped = <<>> /\ validation = <<>> /\ doc = <<>>

NextContent == AddContentToDocument

SpecContent == InitContent /\ [][NextContent]_vars

----------------------------------------------------------------------------
(* Properties of the styled document *)

LogoAvailable == config.logo_path # <<>> /\ logoFile = "ok"

HasPicture(par) == \E i \in 1..Len(par.runs) : par.runs[i].picture

(* the paragraphs of a saved document from the title paragraph on *)
FromTitle(d) ==
    LET i == CHOOSE k \in 1..Len(d) :
                 /\ d[k].runs # <<>> /\ d[k].runs[1].size = 26
                 /\ \A j \in 1..(k-1) : ~(d[j].runs # <<>> /\ d[j].runs[1].size = 26)
    IN SubSeq(d, i, Len(d))

HasTitle(d) == \E k \in 1..Len(d) : d[k].runs # <<>> /\ d[k].runs[1].size = 26

(* C17: whenever the logo is unavailable (path unset, file missing, or      *)
(* add_picture raising), save_docx_guide still saves a document made of the *)
(* title, organization line, date/topic line, separator, one block per      *)
(* content line and the four footer paragraphs; _add_logo_to_header has     *)
(* returned False (the title paragraph gets no logo spacing) and whatever   *)
(* precedes the title holds no picture.                                     *)
C17_LogoFailureKeepsDocument ==
    (cpc = "saved" /\ format_type = "docx" /\ ~LogoAvailable) =>
        \E f \in disk :
            /\ f.name = filename /\ f.complete /\ f.kind = "docx"
            /\ HasTitle(f.blocks)
            /\ LET body == FromTitle(f.blocks)
                   lead == SubSeq(f.blocks, 1, Len(f.blocks) - Len(body))
                   n == Len(SplitLines(content, <<>>))
               IN /\ Len(body) = 4 + n + 4
                  /\ body[1].runs[1].text = TitleText(metadata)
                  /\ body[1].space_before = 0
                  /\ body[2].runs[1].text = <<OrgName>>
                  /\ IsPrefix(<<"Generated: ">>, body[3].runs[1].text)
                  /\ (Truthy(MetaGet(metadata, "topic"))
                         /\ ~Truthy(MetaGet(metadata, "technology"))) =>
                        Contains(body[3].runs[1].text, MetaGet(metadata, "topic").text)
                  /\ body[4].runs[1].text = <<SeparatorText>>
                  /\ body[4 + n + 2].runs[1].text = <<SeparatorText>>
                  /\ body[4 + n + 3].runs[1].text = <<ContactBlock>>
                  /\ Len(lead) <= 1
                  /\ \A k \in 1..Len(lead) : ~HasPicture(lead[k])
                  /\ \A k \in 1..Len(f.blocks) : ~HasPicture(f.blocks[k])

C17_Witness ==
    /\ cpc = "saved" /\ format_type = "docx"
    /\ config.logo_path # <<>> /\ logoFile = "unreadable"
    /\ Len(doc) = 4 + 2 + 4 + 1
    /\ doc[1].runs = <<EmptyRun>>
    /\ \E f \in disk : f.blocks = doc

----------------------------------------------------------------------------
(* Accessibility validation (config.py 342-414).  A feedback message is a   *)
(* sequence of tokens; the emoji that open the messages are written as      *)
(* "(U+...)" tokens.                                                        *)

Cross == "(U+274C) "
Check == "(U+2705) "
Warn == "(U+26A0)(U+FE0F)  "

AccessibleFonts == {"Arial", "Verdana", "Tahoma", "Calibri", "Helvetica", "Open Sans"}

(* str(float) of a line spacing kept in hundredths *)
SpacingText(h) ==
    <<ToString(h \div 100), ".", ToString((h % 100) \div 10)>>
        \o (IF h % 10 = 0 THEN <<>> ELSE <<ToString(h % 10)>>)

BodyFailure(cfg) ==
    <<Cross, "Body font size (", ToString(cfg.body_font_size),
      "pt) below large print minimum (18pt)">>
BodySuccess(cfg) ==
    <<Check, "Large print enabled (", ToString(cfg.body_font_size), "pt body text)">>
Heading1Failure(cfg) ==
    <<Cross, "H1 font size (", ToString(cfg.heading1_font_size), "pt) should be at least 20pt">>
FontWarning(cfg) ==
    << <<Warn, "Font '", cfg.accessible_font, "' may not be optimal for accessibility">>,
       <<"    Recommended fonts: Arial, Verdana, Tahoma, Calibri, Helvetica, Open Sans">> >>
FontSuccess(cfg) == <<Check, "Accessible font selected (", cfg.accessible_font, ")">>
SpacingFailure(cfg) ==
    <<Cross, "Line spacing (">> \o SpacingText(cfg.line_spacing)
        \o <<") below recommended minimum (1.15)">>
SpacingSuccess(cfg) ==
    <<Check, "Good line spacing (">> \o SpacingText(cfg.line_spacing) \o <<")">>
H1H2Failure == <<Cross, "H1 should be larger than H2 for clear hierarchy">>
H2H3Failure == <<Cross, "H2 should be larger than H3 for clear hierarchy">>
ContrastNote == <<Check, "High contrast mode enabled for maximum visibility">>

MutBodyThreshold(cfg) ==
    [ meets_standards |->
          /\ ~(cfg.body_font_size < 16)
          /\ ~(cfg.heading1_font_size < 20)
          /\ ~(cfg.line_spacing < 115)
          /\ ~(cfg.heading1_font_size <= cfg.heading2_font_size)
          /\ ~(cfg.heading2_font_size <= cfg.heading3_font_size),
      recommendations |->
          (IF cfg.body_font_size < 16 THEN <<BodyFailure(cfg)>> ELSE <<BodySuccess(cfg)>>)
          \o (IF cfg.heading1_font_size < 20 THEN <<Heading1Failure(cfg)>> ELSE <<>>)
          \o (IF cfg.accessible_font \notin AccessibleFonts
              THEN FontWarning(cfg) ELSE <<FontSuccess(cfg)>>)
          \o (IF cfg.line_spacing < 115
              THEN <<SpacingFailure(cfg)>> ELSE <<SpacingSuccess(cfg)>>)
          \o (IF cfg.heading1_font_size <= cfg.heading2_font_size
              THEN <<H1H2Failure>> ELSE <<>>)
          \o (IF cfg.heading2_font_size <= cfg.heading3_font_size
              THEN <<H2H3Failure>> ELSE <<>>)
          \o (IF cfg.high_contrast_mode THEN <<ContrastNote>> ELSE <<>>) ]

MutStrictHierarchy(cfg) ==
    [ meets_standards |->
          /\ ~(cfg.body_font_size < 18)
          /\ ~(cfg.heading1_font_size < 20)
          /\ ~(cfg.line_spacing < 115)
          /\ ~(cfg.heading1_font_size < cfg.heading2_font_size)
          /\ ~(cfg.heading2_font_size < cfg.heading3_font_size),
      recommendations |->
          (IF cfg.body_font_size < 18 THEN <<BodyFailure(cfg)>> ELSE <<BodySuccess(cfg)>>)
          \o (IF cfg.heading1_font_size < 20 THEN <<Heading1Failure(cfg)>> ELSE <<>>)
          \o (IF cfg.accessible_font \notin AccessibleFonts
              THEN FontWarning(cfg) ELSE <<FontSuccess(cfg)>>)
          \o (IF cfg.line_spacing < 115
              THEN <<SpacingFailure(cfg)>> ELSE <<SpacingSuccess(cfg)>>)
          \o (IF cfg.heading1_font_size < cfg.heading2_font_size
              THEN <<H1H2Failure>> ELSE <<>>)
          \o (IF cfg.heading2_font_size < cfg.heading3_font_size
              THEN <<H2H3Failure>> ELSE <<>>)
          \o (IF cfg.high_contrast_mode THEN <<ContrastNote>> ELSE <<>>) ]

(* config.py 368-414: the pair (meets_standards, recommendations) *)
ValidateAccessibilitySettings(cfg) ==
    [ meets_standards |->
          /\ ~(cfg.body_font_size < 18)
          /\ ~(cfg.heading1_font_size < 20)
          /\ ~(cfg.line_spacing < 115)
          /\ ~(cfg.heading1_font_size <= cfg.heading2_font_size)
          /\ ~(cfg.heading2_font_size <= cfg.heading3_font_size),
      recommendations |->
          (IF cfg.body_font_size < 18 THEN <<BodyFailure(cfg)>> ELSE <<BodySuccess(cfg)>>)
          \o (IF cfg.heading1_font_size < 20 THEN <<Heading1Failure(cfg)>> ELSE <<>>)
          \o (IF cfg.accessible_font \notin AccessibleFonts
              THEN FontWarning(cfg) ELSE <<FontSuccess(cfg)>>)
          \o (IF cfg.line_spacing < 115
              THEN <<SpacingFailure(cfg)>> ELSE <<SpacingSuccess(cfg)>>)
          \o (IF cfg.heading1_font_size <= cfg.heading2_font_size
              THEN <<H1H2Failure>> ELSE <<>>)
          \o (IF cfg.heading2_font_size <= cfg.heading3_font_size
              THEN <<H2H3Failure>> ELSE <<>>)
          \o (IF cfg.high_contrast_mode THEN <<ContrastNote>> ELSE <<>>) ]

MutConfigAfterValidation(cfg) ==
    [cfg EXCEPT !.body_font_size = IF @ < 18 THEN 18 ELSE @]

(* config.py 342-414: validation assigns to no attribute of self *)
ConfigAfterValidation(cfg) == cfg

(* one call of config.validate_accessibility_settings() *)
ValidateSettings ==
    /\ cpc = "validate"
    /\ validation' = <<ValidateAccessibilitySettings(config)>>
    /\ config' = ConfigAfterValidation(config)
    /\ cpc' = "validated"
    /\ UNCHANGED <<logoFile, now, issued, filename, disk, cmd, format_type,
                   console, escaped, doc>>
    /\ UNCHANGED genVars
    /\ UNCHANGED fileVars

BodySizes == {16, 17, 18, 19}
Heading1Sizes == {19, 20, 24}
Heading2Sizes == {20, 22, 24}
Heading3Sizes == {20, 22}
LineSpacings == {100, 114, 115, 150}
Fonts == {"Arial", "Comic Sans MS"}

AccessibilityConfigs ==
    { [DefaultConfig EXCEPT !.body_font_size = b, !.heading1_font_size = h1,
                            !.heading2_font_size = h2, !.heading3_font_size = h3,
                            !.line_spacing = ls, !.accessible_font = f,
                            !.high_contrast_mode = hc] :
        b \in BodySizes, h1 \in Heading1Sizes, h2 \in Heading2Sizes,
        h3 \in Heading3Sizes, ls \in LineSpacings, f \in Fonts, hc \in BOOLEAN }

InitValidate ==
    /\ GenIdle
    /\ FileIdle
    /\ config \in AccessibilityConfigs
    /\ logoFile = "missing" /\ now = 0 /\ issued = <<>> /\ filename = <<>>
    /\ disk = {} /\ cmd = "none" /\ cpc = "validate" /\ format_type = "markdown"
    /\ console = <<>> /\ escaped = <<>> /\ validation = <<>> /\ doc = <<>>

NextValidate == ValidateSettings

SpecValidate == InitValidate /\ [][NextValidate]_vars

----------------------------------------------------------------------------
(* Properties of accessibility validation *)

CitesMinimum18(msg) ==
    \E i \in 1..Len(msg) : msg[i] = "pt) below large print minimum (18pt)"

InFeedback(msg) ==
    \E i \in 1..Len(validation[1].recommendations) :
        validation[1].recommendations[i] = msg

(* C18: with a body font size below 18 the validation returns               *)
(* meets_standards = False and a message citing the 18pt minimum; with 18   *)
(* or more the feedback holds no such message.                              *)
C18_BodyFontMinimum ==
    cpc = "validated" =>
        LET recs == validation[1].recommendations
        IN /\ config.body_font_size < 18 =>
                 /\ validation[1].meets_standards = FALSE
                 /\ \E i \in 1..Len(recs) : CitesMinimum18(recs[i])
           /\ config.body_font_size >= 18 =>
                 \A i \in 1..Len(recs) : ~CitesMinimum18(recs[i])

C18_Witness ==
    /\ cpc = "validated"
    /\ config.body_font_size = 16
    /\ config.heading1_font_size = 24 /\ config.heading2_font_size = 22
    /\ config.heading3_font_size = 20 /\ config.line_spacing = 115
    /\ validation[1].meets_standards = FALSE

(* C19: meets_standards is True exactly when body >= 18, heading1 >= 20,    *)
(* line spacing >= 1.15, heading1 > heading2 and heading2 > heading3; each  *)
(* hierarchy violation is reported as a failure; the font family and the    *)
(* high-contrast flag have no influence on the boolean.                     *)
C19_MeetsStandardsExactly ==
    cpc = "validated" =>
        /\ validation[1].meets_standards =
              (/\ config.body_font_size >= 18
               /\ config.heading1_font_size >= 20
               /\ config.line_spacing >= 115
               /\ config.heading1_font_size > config.heading2_font_size
               /\ config.heading2_font_size > config.heading3_font_size)
        /\ config.heading1_font_size <= config.heading2_font_size =>
              InFeedback(H1H2Failure) /\ ~validation[1].meets_standards
        /\ config.heading2_font_size <= config.heading3_font_size =>
              InFeedback(H2H3Failure) /\ ~validation[1].meets_standards
        /\ \A f \in Fonts, hc \in BOOLEAN :
              ValidateAccessibilitySettings(
                  [config EXCEPT !.accessible_font = f, !.high_contrast_mode = hc]
              ).meets_standards = validation[1].meets_standards

C19_Witness ==
    /\ cpc = "validated"
    /\ config.body_font_size = 18 /\ config.line_spacing = 115
    /\ config.heading1_font_size = 24 /\ config.heading2_font_size = 24
    /\ config.heading3_font_size = 20
    /\ config.accessible_font = "Comic Sans MS" /\ config.high_contrast_mode
    /\ ~validation[1].meets_standards
    /\ InFeedback(H1H2Failure)

----------------------------------------------------------------------------
(* Properties of the request count *)

----------------------------------------------------------------------------
(* The command line (cli.py): the guide command and the two shortcut        *)
(* commands, each one run of CLIManager.generate_topic_guide.               *)

VoiceOverBasics ==
    << "V", "o", "i", "c", "e", "O", "v", "e", "r", " ", "b", "a", "s",
       "i", "c", "s" >>

VoiceOverForBeginners ==
    << "V", "o", "i", "c", "e", "O", "v", "e", "r", " ", "b", "a", "s",
       "i", "c", "s", " ", "f", "o", "r", " ", "b", "e", "g", "i", "n",
       "n", "e", "r", "s" >>

JawsSetup ==
    << "S", "e", "t", "t", "i", "n", "g", " ", "u", "p", " ", "J", "A",
       "W", "S", " ", "s", "c", "r", "e", "e", "n", " ", "r", "e", "a",
       "d", "e", "r", " ", "o", "n", " ", "W", "i", "n", "d", "o", "w",
       "s" >>

CliCommands == {"guide", "voiceover-basics", "jaws-setup"}

(* cli.py 530-561, 625-629, 637-641: the topic each command passes on; the  *)
(* guide command is run with the topic "VoiceOver basics"                   *)
TopicOf(c) ==
    CASE c = "voiceover-basics" -> VoiceOverForBeginners
      [] c = "jaws-setup" -> JawsSetup
      [] OTHER -> VoiceOverBasics

(* the characters of the fragment " - Learning Guide" *)
SuffixChars ==
    << " ", "-", " ", "L", "e", "a", "r", "n", "i", "n", "g", " ", "G",
       "u", "i", "d", "e" >>

(* a text with its fragment tokens spelled out in characters *)
ExpandText(t) ==
    Flatten([i \in 1..Len(t) |-> IF t[i] = TitleSuffix THEN SuffixChars ELSE <<t[i]>>])

CliErrorPrefix == "(U+274C) Error generating guide: "
SavedPrefix == "(U+2705) Guide saved: "
PreviewPrefix == "(U+1F4C4) Preview: "
CancelledMessage == "\n(U+274C) Generation cancelled by user."
ClickAborted == "Aborted!"
GuidesDir == "MyVision_Guides/Learning_Guides/"

DirectoryError == "[Errno 2] No such file or directory: 'Desktop/MyVision_Guides'"
OpenErrors == {"[Errno 13] Permission denied", "[Errno 30] Read-only file system"}
WriteErrors == {"[Errno 28] No space left on device", "[Errno 5] Input/output error"}

(* cli.py 552 / 628 / 640: CLIManager() builds GuideGenerator and            *)
(* FileManager; FileManager.__init__ (file_manager.py 129) runs              *)
(* config.ensure_output_directory(), whose mkdir (config.py 340) raises when *)
(* the directory cannot be made.  No try encloses the constructor call.      *)
CliConstructManager ==
    /\ cpc = "start"
    /\ \E created \in BOOLEAN :
          IF created
          THEN /\ cpc' = "constructed"
               /\ UNCHANGED escaped
          ELSE /\ cpc' = "crashed"
               /\ escaped' = <<DirectoryError>>
    /\ UNCHANGED <<config, logoFile, now, issued, filename, disk, cmd, format_type,
                   console, validation, doc>>
    /\ UNCHANGED genVars
    /\ UNCHANGED fileVars

(* cli.py 281-333: the progress display starts and generate_topic_guide is  *)
(* awaited                                                                  *)
CliCallGenerate ==
    /\ cpc = "constructed"
    /\ pc' = "start"
    /\ cpc' = "generating"
    /\ UNCHANGED <<mode, topic, thinking, level, prompt, requests, remoteError,
                   received, delivered, accumulated_content, full_content, result,
                   raised>>
    /\ UNCHANGED <<config, logoFile, now, issued, filename, disk, cmd, format_type,
                   console, escaped, validation, doc>>
    /\ UNCHANGED <<loop, progressed>>
    /\ UNCHANGED fileVars

(* cli.py 501-504: generate_topic_guide raised; the message is printed *)
CliGenerationFailed ==
    /\ cpc = "generating" /\ pc = "failed"
    /\ console' = Append(console, <<CliErrorPrefix>> \o raised[1])
    /\ cpc' = "reported"
    /\ UNCHANGED <<config, logoFile, now, issued, filename, disk, cmd, format_type,
                   escaped, validation, doc>>
    /\ UNCHANGED genVars
    /\ UNCHANGED fileVars

(* cli.py 382-386: generate_filename(title=guide_data["title"],             *)
(* guide_type="learning", format_type=format_type), some time after start   *)
CliGenerateFilename ==
    /\ cpc = "generating" /\ pc = "done"
    /\ \E t \in (now + 1)..MaxTicks :
          /\ now' = t
          /\ filename' = GenerateFilename(ExpandText(result[1].title), LearningType,
                                          format_type, t)
          /\ issued' = Append(issued, [title |-> ExpandText(result[1].title),
                                        guide_type |-> LearningType,
                                        format_type |-> format_type, at |-> t,
                                        name |-> filename'])
    /\ cpc' = "named"
    /\ UNCHANGED <<config, logoFile, disk, cmd, format_type, console, escaped,
                   validation, doc>>
    /\ UNCHANGED genVars
    /\ UNCHANGED fileVars

(* cli.py 433-444 into save_docx_guide (file_manager.py 319-331) or         *)
(* save_markdown_guide (281-296): the subfolder is made, the document or    *)
(* text is built, and the file is opened for writing, which creates it      *)
(* empty; mkdir or open may raise instead, and the CLI prints the error     *)
CliSaveOpen ==
    /\ cpc = "named"
    /\ metadata' = result[1].metadata
    /\ content' = result[1].content
    /\ \/ /\ doc' = IF format_type = "docx"
                    THEN CreateWordDocument(content', metadata', config, logoFile)
                    ELSE <<>>
          /\ disk' = WriteFile(disk,
                         File(filename,
                              IF format_type = "docx" THEN "docx" ELSE "markdown",
                              <<>>, <<>>, FALSE))
          /\ cpc' = "writing"
          /\ UNCHANGED console
       \/ /\ \E e \in OpenErrors : console' = Append(console, <<CliErrorPrefix, e>>)
          /\ cpc' = "reported"
          /\ UNCHANGED <<doc, disk>>
    /\ UNCHANGED <<config, logoFile, now, issued, filename, cmd, format_type,
                   escaped, validation>>
    /\ UNCHANGED <<fpc, title, cleaned, recleaned, fileText>>
    /\ UNCHANGED genVars

(* f.write(full_content) / doc.save completes and the file is closed; the   *)
(* save returns file_path and cli.py 446-499 prints the confirmation        *)
CliSaveWrite ==
    /\ cpc = "writing"
    /\ disk' = WriteFile(disk,
                   IF format_type = "docx"
                   THEN File(filename, "docx", <<>>, doc, TRUE)
                   ELSE File(filename, "markdown", MarkdownText(metadata, content),
                             <<>>, TRUE))
    /\ console' = console \o << <<SavedPrefix, GuidesDir>> \o filename,
                                <<PreviewPrefix>> \o content >>
    /\ cpc' = "saved"
    /\ UNCHANGED <<config, logoFile, now, issued, filename, cmd, format_type,
                   escaped, validation, doc>>
    /\ UNCHANGED genVars
    /\ UNCHANGED fileVars

MutCliSaveWriteFail ==
    /\ cpc = "writing"
    /\ console' = Append(console, <<SavedPrefix, GuidesDir>> \o filename)
    /\ cpc' = "reported"
    /\ UNCHANGED <<config, logoFile, now, issued, filename, disk, cmd, format_type,
                   escaped, validation, doc>>
    /\ UNCHANGED genVars
    /\ UNCHANGED fileVars

(* the write raises (file_manager.py 297 / 331): the exception reaches      *)
(* cli.py 501-504; nothing removes the file that open created               *)
CliSaveWriteFail ==
    /\ cpc = "writing"
    /\ \E e \in WriteErrors : console' = Append(console, <<CliErrorPrefix, e>>)
    /\ cpc' = "reported"
    /\ UNCHANGED <<config, logoFile, now, issued, filename, disk, cmd, format_type,
                   escaped, validation, doc>>
    /\ UNCHANGED genVars
    /\ UNCHANGED fileVars

(* the user interrupts (Ctrl-C) while the request is in flight or while the *)
(* file is being written: KeyboardInterrupt passes "except Exception"       *)
(* (cli.py 501) and is caught at cli.py 558 in the guide command; the       *)
(* shortcut commands leave it to click, which prints "Aborted!"             *)
CliInterrupt ==
    /\ \/ cpc = "generating" /\ pc = "waiting"
       \/ cpc = "writing"
    /\ console' = Append(console,
                         IF cmd = "guide" THEN <<CancelledMessage>> ELSE <<ClickAborted>>)
    /\ cpc' = "cancelled"
    /\ pc' = IF pc = "waiting" THEN "idle" ELSE pc
    /\ UNCHANGED <<mode, topic, thinking, level, prompt, requests, remoteError,
                   received, delivered, accumulated_content, full_content, result,
                   raised>>
    /\ UNCHANGED <<config, logoFile, now, issued, filename, disk, cmd, format_type,
                   escaped, validation, doc>>
    /\ UNCHANGED <<loop, progressed>>
    /\ UNCHANGED fileVars

InitCli ==
    /\ cmd \in CliCommands
    /\ topic = TopicOf(cmd)
    /\ format_type \in {"markdown", "docx"}
    /\ logoFile \in {"missing", "ok"}
    /\ mode = "batch" /\ thinking \in BOOLEAN /\ level = "detailed"
    /\ pc = "idle" /\ prompt = <<>> /\ requests = <<>> /\ remoteError = <<>>
    /\ received = <<>> /\ delivered = <<>> /\ accumulated_content = <<>>
    /\ full_content = <<>> /\ result = <<>> /\ raised = <<>>
    /\ loop = LoopFree /\ progressed = FALSE
    /\ FileIdle
    /\ ConfigIdle
    /\ now = 0 /\ issued = <<>> /\ filename = <<>> /\ disk = {}
    /\ cpc = "start" /\ console = <<>> /\ escaped = <<>> /\ validation = <<>>
    /\ doc = <<>>

NextCli ==
    \/ CliConstructManager
    \/ CliCallGenerate
    \/ BatchStart
    \/ BatchReturn
    \/ BatchRaise
    \/ MainTaskStep
    \/ CliGenerationFailed
    \/ CliGenerateFilename
    \/ CliSaveOpen
    \/ CliSaveWrite
    \/ CliSaveWriteFail
    \/ CliInterrupt

SpecCli == InitCli /\ [][NextCli]_vars

(* cli.py 195: CLIManager.generate_topic_guide(topic, format_type) called   *)
(* with any string as format_type, not only the two click lets through     *)
InitManagerCall ==
    /\ cmd = "guide"
    /\ topic = TopicOf(cmd)
    /\ format_type \in Formats
    /\ logoFile \in {"missing", "ok"}
    /\ mode = "batch" /\ thinking \in BOOLEAN /\ level = "detailed"
    /\ pc = "idle" /\ prompt = <<>> /\ requests = <<>> /\ remoteError = <<>>
    /\ received = <<>> /\ delivered = <<>> /\ accumulated_content = <<>>
    /\ full_content = <<>> /\ result = <<>> /\ raised = <<>>
    /\ loop = LoopFree /\ progressed = FALSE
    /\ FileIdle
    /\ ConfigIdle
    /\ now = 0 /\ issued = <<>> /\ filename = <<>> /\ disk = {}
    /\ cpc = "start" /\ console = <<>> /\ escaped = <<>> /\ validation = <<>>
    /\ doc = <<>>

SpecManagerCall == InitManagerCall /\ [][NextCli]_vars

----------------------------------------------------------------------------
(* Properties of the command line *)

CliEnded == cpc \in {"saved", "reported", "cancelled", "crashed"}

LearningGuideInfix ==
    << "_", "l", "e", "a", "r", "n", "i", "n", "g", "_", "g", "u", "i", "d", "e", "_" >>

(* C12 as stated: the guide command with topic "VoiceOver basics" and       *)
(* format markdown saves a file named voiceover_basics_learning_guide_,     *)
(* the timestamp, ".md" (the cleaned topic followed once by                 *)
(* _learning_guide_), whose header holds the lines "topic: VoiceOver        *)
(* basics" and "type: Learning Guide".                                      *)
C12_ScenarioFileName ==
    (cmd = "guide" /\ topic = VoiceOverBasics /\ format_type = "markdown"
        /\ cpc = "saved") =>
        \E f \in disk :
            /\ f.name = CleanFilename(VoiceOverBasics) \o LearningGuideInfix
                            \o Timestamp(now) \o <<".", "m", "d">>
            /\ Contains(f.text, <<NL, "topic", ":", " ">> \o VoiceOverBasics \o <<NL>>)
            /\ Contains(f.text, <<NL, "type", ":", " ", "Learning Guide", NL>>)

(* C14 as stated: when a command has ended, whichever way, the output       *)
(* folder holds one completely written file if the save returned and no     *)
(* file otherwise.                                                          *)
C14_NoPartialFile ==
    CliEnded =>
        IF cpc = "saved"
        THEN \E f \in disk : disk = {f} /\ f.name = filename /\ f.complete
        ELSE disk = {}

(* C15 as stated: no failure leaves a command as an uncaught exception, and *)
(* every failure ends the command with an error message printed.            *)
C15_FailuresReported ==
    /\ escaped = <<>>
    /\ cpc # "crashed"
    /\ (CliEnded /\ pc = "failed") => cpc = "reported"
    /\ cpc = "reported" =>
          /\ console # <<>>
          /\ console[Len(console)][1] = CliErrorPrefix

----------------------------------------------------------------------------
(* Every operation of the program in one specification: the guide client's  *)
(* entry points called directly, the command line, filename generation and  *)
(* saving, the styled-document writer and accessibility validation.         *)

InitConfig == Init \/ InitCli \/ InitNames \/ InitDocx \/ InitValidate

NextConfig ==
    \/ BatchStart
    \/ BatchReturn
    \/ BatchRaise
    \/ StreamStart
    \/ StreamOpen
    \/ StreamCreateRaise
    \/ StreamEvent
    \/ StreamEventRaise
    \/ StreamEnd
    \/ MainTaskStep
    \/ CliConstructManager
    \/ CliCallGenerate
    \/ CliGenerationFailed
    \/ CliGenerateFilename
    \/ CliSaveOpen
    \/ CliSaveWrite
    \/ CliSaveWriteFail
    \/ CliInterrupt
    \/ NameGenerate
    \/ NameSave
    \/ SaveDocxGuide
    \/ ValidateSettings

SpecConfig == InitConfig /\ [][NextConfig]_vars

(* C20: no step of any operation changes a configuration field: the Config  *)
(* record, the thinking flag and the detail level stay what they were at    *)
(* startup; validation of a violating size leaves the size as it is.        *)
C20_ConfigReadOnly ==
    [][config' = config /\ thinking' = thinking /\ level' = level]_vars

C20_Witness ==
    /\ cpc = "validated"
    /\ validation[1].meets_standards = FALSE
    /\ config.body_font_size = 16
    /\ config.heading1_font_size = 19
    /\ CitesMinimum18(validation[1].recommendations[1])


----------------------------------------------------------------------------
(* Properties of the event loop during a request *)

InFlight == pc \in {"waiting", "streaming"}

(* C21: while a request is in flight, in batch mode and in streaming mode   *)
(* alike and also while the next streamed event is awaited, the wait is off *)
(* the caller's main task, so the main task is free to take steps           *)
C21_RemoteCallOffMainTask == InFlight => loop = LoopFree

----------------------------------------------------------------------------
(* Batch and streaming side by side *)

LastRequest == requests[Len(requests)]

(* C22: for every topic and thinking configuration the prompt text built by *)
(* stream_topic_guide is the prompt text built by generate_topic_guide, and *)
(* the two requests carry the same model, max_tokens, temperature and       *)
(* system text; they differ in the stream flag only                         *)
C22_SamePromptAndParameters ==
    pc = "waiting" =>
        /\ prompt = BatchPrompt(topic, thinking, level)
        /\ prompt = StreamPrompt(topic, thinking, level)
        /\ LastRequest.content = prompt
        /\ [LastRequest EXCEPT !.stream = FALSE] = BatchRequest(prompt)
        /\ [LastRequest EXCEPT !.stream = TRUE] = StreamRequest(prompt)
        /\ LastRequest.stream = (mode # "batch")
        /\ BatchRequest(prompt).stream # StreamRequest(prompt).stream

C22_Witness ==
    /\ pc = "waiting" /\ mode = "stream"
    /\ thinking /\ level = "expert"
    /\ Title(topic) # topic
    /\ LastRequest.stream

(* the dict generate_topic_guide returns for the same topic when the remote *)
(* side answers with the text the stream delivered                          *)
BatchEquivalent(ts) == BatchResult(topic, Flatten(delivered), ts)

(* C23: the dict the adapter returns is equivalent to the batch dict for    *)
(* the same topic and text: same content, same title, and a metadata with   *)
(* the same topic, the same type label and the same client name             *)
C23_AdapterEquivalentToBatch ==
    (mode = "adapter" /\ pc = "done") =>
        \E ts \in IsoStamps :
            /\ result[1].content = BatchEquivalent(ts).content
            /\ result[1].title = BatchEquivalent(ts).title
            /\ MetaGet(result[1].metadata, "topic")
                  = MetaGet(BatchEquivalent(ts).metadata, "topic")
            /\ MetaGet(result[1].metadata, "type")
                  = MetaGet(BatchEquivalent(ts).metadata, "type")
            /\ MetaGet(result[1].metadata, "client_name")
                  = MetaGet(BatchEquivalent(ts).metadata, "client_name")

----------------------------------------------------------------------------
(* Properties of the line-by-line translation *)

IsNL(c) == c = NL
LineCount(c) == Len(SelectSeq(c, IsNL)) + 1

IsHeading1(l) == StartsWith(l, <<"#", " ">>)
IsHeading2(l) == StartsWith(l, <<"#", "#", " ">>)
IsHeading3(l) == StartsWith(l, <<"#", "#", "#", " ">>)
IsBullet(l) == StartsWith(l, <<"-", " ">>) \/ StartsWith(l, <<"*", " ">>)
IsNumbered(l) ==
    /\ Len(l) >= 3
    /\ l[1] \in {"1", "2", "3", "4", "5", "6", "7", "8", "9"}
    /\ l[2] = "." /\ l[3] = " "

(* the line reaches the last rule *)
IsBody(l) ==
    /\ l # <<>>
    /\ ~IsHeading1(l) /\ ~IsHeading2(l) /\ ~IsHeading3(l)
    /\ ~IsBullet(l) /\ ~IsNumbered(l)

(* a paragraph with one run of the given text *)
OneRun(b, text) == Len(b.runs) = 1 /\ b.runs[1].text = text

(* C24: the content is split into lines, each line is trimmed, and line i  *)
(* gives block i, chosen by the first rule that matches: blank, an empty    *)
(* paragraph; "# ", "## ", "### ", a heading of level 1, 2, 3 holding the   *)
(* trimmed rest of the line; "- " or "* ", a bullet item; a digit 1 to 9    *)
(* and ". ", a numbered item holding what follows the first ". "; anything  *)
(* else, a body paragraph. There are as many blocks as lines.               *)
C24_OneBlockPerLine ==
    cpc = "translated" =>
        /\ Len(doc) = LineCount(content)
        /\ \A i \in 1..Len(doc) :
              LET l == Strip(SplitLines(content, <<>>)[i])
                  b == doc[i]
              IN IF l = <<>> THEN b.style = "Normal" /\ b.runs = <<>>
                 ELSE IF IsHeading1(l)
                      THEN b.style = "Heading 1" /\ OneRun(b, Strip(DropFirst(l, 2)))
                 ELSE IF IsHeading2(l)
                      THEN b.style = "Heading 2" /\ OneRun(b, Strip(DropFirst(l, 3)))
                 ELSE IF IsHeading3(l)
                      THEN b.style = "Heading 3" /\ OneRun(b, Strip(DropFirst(l, 4)))
                 ELSE IF IsBullet(l)
                      THEN b.style = "List Bullet" /\ OneRun(b, DropFirst(l, 2))
                 ELSE IF IsNumbered(l)
                      THEN b.style = "List Number" /\ OneRun(b, DropFirst(l, 3))
                 ELSE b.style = "Normal"

C24_Witness ==
    /\ cpc = "translated"
    /\ content = <<"#", "#", " ", "a", NL>>
    /\ Len(doc) = 2
    /\ doc[1].style = "Heading 2"
    /\ doc[2].runs = <<>>

HasDelimiter(l) == \E k \in 1..(Len(l) - 1) : l[k] = "*" /\ l[k+1] = "*"

(* the line with every "**" removed, left to right *)
RECURSIVE RemoveDelimiters(_)
RemoveDelimiters(l) ==
    IF l = <<>> THEN <<>>
    ELSE IF Len(l) >= 2 /\ l[1] = "*" /\ l[2] = "*" THEN RemoveDelimiters(DropFirst(l, 2))
    ELSE <<Head(l)>> \o RemoveDelimiters(Tail(l))

RunTexts(b) == Flatten([j \in 1..Len(b.runs) |-> b.runs[j].text])

(* C25: a line that reaches the body rule and holds "**" is split on it;    *)
(* the non-empty pieces become the runs, in order; a run is bold exactly    *)
(* when its piece has an odd index in the split (counting from 0); the run  *)
(* texts together are the line without any "**". A body line without "**"   *)
(* is one run, not bold, holding the whole line.                            *)
C25_BoldSpans ==
    cpc = "translated" =>
        \A i \in 1..Len(doc) :
            LET l == Strip(SplitLines(content, <<>>)[i])
                b == doc[i]
                parts == SplitBold(l, <<>>)
                kept == SelectSeq([k \in 1..Len(parts) |-> k],
                                  LAMBDA k : parts[k] # <<>>)
            IN IsBody(l) =>
                 IF HasDelimiter(l)
                 THEN /\ Len(b.runs) = Len(kept)
                      /\ \A j \in 1..Len(kept) :
                            /\ b.runs[j].text = parts[kept[j]]
                            /\ b.runs[j].bold <=> ((kept[j] - 1) % 2 = 1)
                      /\ RunTexts(b) = RemoveDelimiters(l)
                 ELSE /\ OneRun(b, l)
                      /\ ~b.runs[1].bold

C25_Witness ==
    /\ cpc = "translated"
    /\ content = <<"a", "*", "*", "b", "*", "*", "a">>
    /\ Len(doc[1].runs) = 3
    /\ ~doc[1].runs[1].bold /\ doc[1].runs[2].bold /\ ~doc[1].runs[3].bold

----------------------------------------------------------------------------
(* Order of generation and file operations in the CLI *)

GenerationReturned == pc = "done" /\ Len(result) = 1

(* generate_topic_guide raised, or the user interrupted it *)
GenerationAborted == pc = "failed" \/ (cpc = "cancelled" /\ pc = "idle")

SavedPrinted(c) == \E i \in 1..Len(c) : c[i] # <<>> /\ c[i][1] = SavedPrefix

(* C26: in the CLI flow a filename is generated and a file is touched only  *)
(* when generate_topic_guide has returned its result; when generation       *)
(* raised or was cancelled no filename is ever generated and no file        *)
(* touched; and the step that prints "Guide saved" leaves the file complete *)
(* under the generated name, the save having returned its path.             *)
C26_FilesAfterGeneration ==
    /\ [](GenerationAborted => (issued = <<>> /\ filename = <<>> /\ disk = {}))
    /\ [][ /\ (issued' # issued \/ filename' # filename) => GenerationReturned
           /\ (disk' # disk) => (GenerationReturned /\ issued # <<>>)
           /\ (SavedPrinted(console') /\ ~SavedPrinted(console)) =>
                 \E f \in disk' : f.name = filename /\ f.complete ]_vars

C26_Witness ==
    /\ cmd = "guide" /\ cpc = "saved"
    /\ GenerationReturned
    /\ Len(issued) = 1
    /\ SavedPrinted(console)
    /\ \E f \in disk : f.name = filename /\ f.complete

----------------------------------------------------------------------------
(* Properties of a stream that fails or delivers only whitespace *)

(* the error stream_topic_guide raises for what happened on the stream *)
StreamError ==
    IF remoteError # <<>> THEN StreamFailure(remoteError[1])
    ELSE StreamFailure(NoContentMessage)

HasVisibleCharacter(s) == \E i \in 1..Len(s) : ~IsWhitespace(s[i])

(* C28: a stream that completes without raising has delivered fragments    *)
(* whose concatenation holds a character that is not whitespace; when every *)
(* text-delta received is empty or whitespace, the fragments were still     *)
(* delivered, in order, and the stream ends with the no-content error       *)
C28_CompletionNeedsVisibleText ==
    Streaming =>
        /\ pc = "done" => HasVisibleCharacter(Flatten(delivered))
        /\ (StreamCompleted /\ ~HasVisibleCharacter(Flatten(DeltaTexts(received)))) =>
              /\ delivered = DeltaTexts(received)
              /\ pc = "failed"
              /\ raised = StreamFailure(NoContentMessage)

C28_Witness ==
    /\ mode = "stream" /\ pc = "failed"
    /\ received = <<TextDelta(<<" ">>), TextDelta(<<>>), TextDelta(<<" ">>)>>
    /\ delivered = << <<" ">>, <<>>, <<" ">> >>
    /\ raised = <<StreamErrorPrefix, NoContentMessage>>

----------------------------------------------------------------------------
(* Extension and writer *)

EndsWith(s, e) == Len(e) <= Len(s) /\ LastN(s, Len(e)) = e

----------------------------------------------------------------------------
(* Shape of every cleaned filename *)

(* str.isupper() of one character *)
IsUppercase(c) == c \in UpperSet \/ c = DoubleStruckC

NoEdgeUnderscore(s) == s # <<>> => (s[1] # "_" /\ s[Len(s)] # "_")

(* C30 as stated: the result of _clean_filename has at most 50 characters,  *)
(* neither begins nor ends with an underscore, and holds no uppercase       *)
(* letter, no whitespace and no hyphen.                                     *)
C30_SafeResult ==
    fpc \in {"cleaned", "recleaned"} =>
        /\ Len(cleaned) <= MaxFilenameLen
        /\ NoEdgeUnderscore(cleaned)
        /\ \A i \in 1..Len(cleaned) :
              /\ ~IsUppercase(cleaned[i])
              /\ ~IsSpace(cleaned[i])
              /\ cleaned[i] # "-"

(* C30, amended: the result of _clean_filename has at most 50 characters,   *)
(* neither begins nor ends with an underscore, holds no whitespace and no   *)
(* hyphen, and holds no letter that lower-casing would change.              *)
C30_SafeResultLowercased ==
    fpc \in {"cleaned", "recleaned"} =>
        /\ Len(cleaned) <= MaxFilenameLen
        /\ NoEdgeUnderscore(cleaned)
        /\ \A i \in 1..Len(cleaned) :
              /\ LowerTok(cleaned[i]) = cleaned[i]
              /\ ~IsSpace(cleaned[i])
              /\ cleaned[i] # "-"

C30_Witness ==
    /\ fpc = "cleaned"
    /\ title = <<DoubleStruckC, "-", "B">>
    /\ cleaned = <<DoubleStruckC, "_", "b">>

====
